---- MODULE Spec2Model ----
(***************************************************************************)
(* Work-order extraction pipeline: the processing orchestrator             *)
(* (lib/workOrders/processing.ts), the rule-based extractor and its        *)
(* work-order-number locator, the outcome of the AI extractor              *)
(* (lib/workOrders/aiParser.ts) and the two repositories it talks to, the   *)
(* POST /api/work-orders route and the PDF text extraction.                *)
(*                                                                         *)
(* Texts (subjects, filenames, MIME types, ids, work-order numbers) are    *)
(* sequences of one-character strings.                                     *)
(***************************************************************************)
EXTENDS Integers, Sequences, FiniteSets, Bags, TLC

\* JavaScript null / undefined.
NULL == "NULL"

----------------------------------------------------------------------------
(* Character classes of the regular expressions and of toLowerCase.        *)

Digits == {"0", "1", "2", "3", "4", "5", "6", "7", "8", "9"}

LowerLetters ==
  {"a", "b", "c", "d", "e", "f", "g", "h", "i", "j", "k", "l", "m",
   "n", "o", "p", "q", "r", "s", "t", "u", "v", "w", "x", "y", "z"}

UpperLetters ==
  {"A", "B", "C", "D", "E", "F", "G", "H", "I", "J", "K", "L", "M",
   "N", "O", "P", "Q", "R", "S", "T", "U", "V", "W", "X", "Y", "Z"}

\* \w of the regular expressions: letters, digits and the underscore.
WordChars == Digits \cup LowerLetters \cup UpperLetters \cup {"_"}

\* \s of the regular expressions (the characters of it the texts use).
Whitespace == {" ", "\t", "\n"}

\* String.prototype.toLowerCase on one character.
LowerChar(c) ==
  CASE c = "A" -> "a" [] c = "B" -> "b" [] c = "C" -> "c" [] c = "D" -> "d"
    [] c = "E" -> "e" [] c = "F" -> "f" [] c = "G" -> "g" [] c = "H" -> "h"
    [] c = "I" -> "i" [] c = "J" -> "j" [] c = "K" -> "k" [] c = "L" -> "l"
    [] c = "M" -> "m" [] c = "N" -> "n" [] c = "O" -> "o" [] c = "P" -> "p"
    [] c = "Q" -> "q" [] c = "R" -> "r" [] c = "S" -> "s" [] c = "T" -> "t"
    [] c = "U" -> "u" [] c = "V" -> "v" [] c = "W" -> "w" [] c = "X" -> "x"
    [] c = "Y" -> "y" [] c = "Z" -> "z" [] OTHER -> c

\* String.prototype.toLowerCase.
ToLowerCase(s) == [i \in 1..Len(s) |-> LowerChar(s[i])]

\* String.prototype.includes: sub occurs in s as a contiguous substring.
Includes(s, sub) ==
  \E i \in 1..(Len(s) - Len(sub) + 1) : SubSeq(s, i, i + Len(sub) - 1) = sub

\* String.prototype.slice(0, n).
Slice0(s, n) == SubSeq(s, 1, IF Len(s) < n THEN Len(s) ELSE n)

\* The decimal rendering of a small array index inside a template literal.
IndexToString(i) ==
  IF i < 10
    THEN << <<"0">>, <<"1">>, <<"2">>, <<"3">>, <<"4">>,
            <<"5">>, <<"6">>, <<"7">>, <<"8">>, <<"9">> >>[i + 1]
    ELSE << <<"1">>, <<"2">>, <<"3">>, <<"4">>, <<"5">>,
            <<"6">>, <<"7">>, <<"8">>, <<"9">> >>[i \div 10]
         \o << <<"0">>, <<"1">>, <<"2">>, <<"3">>, <<"4">>,
               <<"5">>, <<"6">>, <<"7">>, <<"8">>, <<"9">> >>[(i % 10) + 1]

----------------------------------------------------------------------------
(* Work-order-number locator: extractWorkOrderNumberFromText.              *)

\* Length of the run of characters of class cls that starts at position i.
RECURSIVE RunLength(_, _, _)
RunLength(s, i, cls) ==
  IF i > Len(s) \/ s[i] \notin cls THEN 0 ELSE 1 + RunLength(s, i + 1, cls)

\* Lower and upper repetition counts of \d{5,10} and \d{6,10}.
WoMinDigits == 5
BareMinDigits == 6
MaxDigits == 10

\* /WO#?\s*(\d{5,10})/i anchored at position i: the captured group, or NULL.
\* "#?" and "\s*" are greedy and disjoint from what follows them, and
\* nothing follows the group, so the group is the first min(run, 10) digits.
WoMatchAt(s, i) ==
  IF i + 1 > Len(s) \/ LowerChar(s[i]) # "w" \/ LowerChar(s[i + 1]) # "o"
    THEN NULL
    ELSE LET afterHash == IF i + 2 <= Len(s) /\ s[i + 2] = "#"
                            THEN i + 3 ELSE i + 2
             start == afterHash + RunLength(s, afterHash, Whitespace)
             run == RunLength(s, start, Digits)
         IN  IF run < WoMinDigits
               THEN NULL
               ELSE SubSeq(s, start,
                           start + (IF run > MaxDigits THEN MaxDigits ELSE run) - 1)

\* \b at the gap before position i (1 <= i <= Len(s) + 1).
WordBoundary(s, i) ==
  LET before == i > 1 /\ s[i - 1] \in WordChars
      after == i <= Len(s) /\ s[i] \in WordChars
  IN  before # after

\* Variant of BareMatchAt: /(\d{6,10})/, without the word boundaries.
BareMatchAtUnbounded(s, i) ==
  LET run == RunLength(s, i, Digits)
  IN  IF run < BareMinDigits
        THEN NULL
        ELSE SubSeq(s, i, i + (IF run > MaxDigits THEN MaxDigits ELSE run) - 1)

\* /\b(\d{6,10})\b/ anchored at position i: the captured group, or NULL.
\* The group takes the longest count in 6..10 after which \b holds.
BareMatchAt(s, i) ==
  LET run == RunLength(s, i, Digits)
      lens == {k \in BareMinDigits..MaxDigits :
                 k <= run /\ WordBoundary(s, i + k)}
  IN  IF ~WordBoundary(s, i) \/ lens = {}
        THEN NULL
        ELSE SubSeq(s, i, i + (CHOOSE k \in lens : \A j \in lens : j <= k) - 1)

\* String.prototype.match without the g flag: the match at the leftmost
\* position at which the pattern matches, scanning from position i.
RECURSIVE FirstWoMatch(_, _)
FirstWoMatch(s, i) ==
  IF i > Len(s) THEN NULL
  ELSE IF WoMatchAt(s, i) # NULL THEN WoMatchAt(s, i)
  ELSE FirstWoMatch(s, i + 1)

RECURSIVE FirstBareMatch(_, _)
FirstBareMatch(s, i) ==
  IF i > Len(s) THEN NULL
  ELSE IF BareMatchAt(s, i) # NULL THEN BareMatchAt(s, i)
  ELSE FirstBareMatch(s, i + 1)

extractWorkOrderNumberFromText(subjectOrFilename) ==
  LET woMatch == FirstWoMatch(subjectOrFilename, 1)
      digitMatch == FirstBareMatch(subjectOrFilename, 1)
  IN  IF woMatch # NULL THEN woMatch
      ELSE IF digitMatch # NULL THEN digitMatch
      ELSE NULL

----------------------------------------------------------------------------
(* The stored emails.  Everything but processingStatus is immutable.       *)

MimePdf == <<"a","p","p","l","i","c","a","t","i","o","n","/","p","d","f">>
MimePdfUpper == <<"A","P","P","L","I","C","A","T","I","O","N","/","P","D","F">>
MimePng == <<"i","m","a","g","e","/","p","n","g">>

E1 == <<"e","1","-","0","0","0","0","0","0">>
E2 == <<"e","2","-","0","0","0","0","0","0">>
E3 == <<"e","3","-","0","0","0","0","0","0">>
E4 == <<"e","4","-","0","0","0","0","0","0">>
\* An id that matches no stored email.
EMissing == <<"e","9","-","0","0","0","0","0","0">>

\* E1: two PDFs without a number in the filename, a number in the subject.
\* E2: a PDF named after a number, an image, and a PDF without any number.
\* E3: an image only, a number in the subject.
\* E4: no attachment at all.
EmailTable ==
  (E1 :> [id |-> E1,
          subject |-> <<"W","O","#","1","2","3","4","5","6">>,
          attachments |->
            << [filename |-> <<"a",".","p","d","f">>, mimeType |-> MimePdf],
               [filename |-> <<"b",".","P","D","F">>, mimeType |-> MimePdfUpper] >>])
  @@
  (E2 :> [id |-> E2,
          subject |-> <<"h","i">>,
          attachments |->
            << [filename |-> <<"1","2","3","4","5","6",".","p","d","f">>,
                mimeType |-> MimePdf],
               [filename |-> <<"p",".","p","n","g">>, mimeType |-> MimePng],
               [filename |-> <<"x",".","p","d","f">>, mimeType |-> MimePdf] >>])
  @@
  (E3 :> [id |-> E3,
          subject |-> <<"W","O"," ","6","5","4","3","2","1">>,
          attachments |->
            << [filename |-> <<"p",".","p","n","g">>, mimeType |-> MimePng] >>])
  @@
  (E4 :> [id |-> E4,
          subject |-> <<"W","O","#","7","0","0","0","0","1">>,
          attachments |-> << >>])

StoredEmailIds == DOMAIN EmailTable

EmailProcessingStatus == {"new", "processed", "skipped_duplicate"}

\* undefined: the userId of a record that has no userId property yet.
UNSET == "UNSET"

----------------------------------------------------------------------------
(* Small sequence helpers: Array.prototype.filter and map.                 *)

RECURSIVE SelectIdx(_, _, _)
\* The indices i >= from of s, ascending, with keep[i].
SelectIdx(n, keep, from) ==
  IF from > n THEN <<>>
  ELSE IF keep[from] THEN <<from>> \o SelectIdx(n, keep, from + 1)
  ELSE SelectIdx(n, keep, from + 1)

\* Variant of PdfAttachments: the MIME type is tested as it is written.
PdfAttachmentsCaseSensitive(email) ==
  LET atts == email.attachments
      keep == [i \in 1..Len(atts) |->
                 Includes(atts[i].mimeType, <<"p","d","f">>)]
      idx == SelectIdx(Len(atts), keep, 1)
  IN  [k \in 1..Len(idx) |-> atts[idx[k]]]

\* attachments.filter(att => att.mimeType.toLowerCase().includes("pdf"))
PdfAttachments(email) ==
  LET atts == email.attachments
      keep == [i \in 1..Len(atts) |->
                 Includes(ToLowerCase(atts[i].mimeType), <<"p","d","f">>)]
      idx == SelectIdx(Len(atts), keep, 1)
  IN  [k \in 1..Len(idx) |-> atts[idx[k]]]

----------------------------------------------------------------------------
(* Rule-based extractor: buildWorkOrderInputsFromEmail.                    *)

UnknownPrefix == <<"U","N","K","N","O","W","N","-">>

\* Variant of RuleBasedNumber: the subject is tried before the filename.
RuleBasedNumberSubjectFirst(email, attachment, index) ==
  LET fromFilename == extractWorkOrderNumberFromText(attachment.filename)
      fromSubject == extractWorkOrderNumberFromText(email.subject)
  IN  IF fromSubject # NULL THEN fromSubject
      ELSE IF fromFilename # NULL THEN fromFilename
      ELSE UnknownPrefix \o Slice0(email.id, 8) \o <<"-">> \o IndexToString(index)

\* The workOrderNumber of the PDF attachment at (0-based) index.
RuleBasedNumber(email, attachment, index) ==
  LET fromFilename == extractWorkOrderNumberFromText(attachment.filename)
      fromSubject == extractWorkOrderNumberFromText(email.subject)
  IN  IF fromFilename # NULL THEN fromFilename
      ELSE IF fromSubject # NULL THEN fromSubject
      ELSE UnknownPrefix \o Slice0(email.id, 8) \o <<"-">> \o IndexToString(index)

\* One record per PDF attachment, without userId.
buildWorkOrderInputsFromEmail(email) ==
  LET pdfAttachments == PdfAttachments(email)
  IN  [k \in 1..Len(pdfAttachments) |->
         [workOrderNumber |-> RuleBasedNumber(email, pdfAttachments[k], k - 1),
          serviceAddress |-> "Unknown facility",
          jobType |-> "General service",
          userId |-> UNSET]]

----------------------------------------------------------------------------
(* AI extractor: what aiParseWorkOrdersFromEmail returns, as a function of *)
(* the configuration, of which PDFs yielded text and of the model's reply. *)

N123456 == <<"1","2","3","4","5","6">>
N700001 == <<"7","0","0","0","0","1">>

\* Work-order objects the model replies with (the fields the pipeline reads
\* here): one without number and address, one whose number a filename and a
\* subject also carry, one whose number no email carries.
AiItemBlank ==
  [isNull |-> FALSE, work_order_number |-> <<>>, service_address |-> ""]
AiItem123456 ==
  [isNull |-> FALSE, work_order_number |-> N123456,
   service_address |-> "12 Main St"]
AiItem700001 ==
  [isNull |-> FALSE, work_order_number |-> N700001,
   service_address |-> "12 Main St"]
\* null as an element of the array: it has no field to read.
AiItemNull ==
  [isNull |-> TRUE, work_order_number |-> <<>>, service_address |-> ""]

\* The workOrders arrays the model replies with.
AiWorkOrderLists ==
  { <<>>, <<AiItemBlank>>, <<AiItem700001>>, <<AiItem123456, AiItem700001>>,
    <<AiItem700001, AiItemNull>> }

\* Outcomes of client.chat.completions.create and of JSON.parse on its text.
AiReplies ==
  { [kind |-> k, workOrders |-> <<>>] :
      k \in {"rejected", "no_content", "invalid_json",
             "missing_workOrders", "workOrders_not_array"} }
  \cup { [kind |-> "ok", workOrders |-> l] : l \in AiWorkOrderLists }

\* What the AI extractor hands back: null, or a list of records (without
\* userId); AiThrown stands for a rejection of the awaited call.
AiNull == [kind |-> "null", list |-> <<>>]
AiList(l) == [kind |-> "list", list |-> l]
AiThrown == [kind |-> "thrown", list |-> <<>>]

\* Variant of parseAiResponse: the model's work_order_number is taken as it
\* is, without the placeholder.
ParseAiResponseNoPlaceholder(reply, email) ==
  IF reply.kind \in {"invalid_json", "missing_workOrders",
                     "workOrders_not_array"} THEN AiNull
  ELSE AiList([k \in 1..Len(reply.workOrders) |->
          [workOrderNumber |-> reply.workOrders[k].work_order_number,
           serviceAddress |->
             IF reply.workOrders[k].service_address # ""
               THEN reply.workOrders[k].service_address ELSE NULL,
           jobType |-> NULL,
           userId |-> UNSET]])

\* Variant of parseAiResponse: a null element of the array is mapped like
\* an object without fields.
ParseAiResponseNullAsEmpty(reply, email) ==
  IF reply.kind = "invalid_json" THEN AiNull
  ELSE IF reply.kind \in {"missing_workOrders", "workOrders_not_array"} THEN AiNull
  ELSE IF Len(reply.workOrders) = 0 THEN AiList(<<>>)
  ELSE AiList([k \in 1..Len(reply.workOrders) |->
          LET wo == reply.workOrders[k]
          IN  [workOrderNumber |->
                 IF wo.work_order_number # <<>>
                   THEN wo.work_order_number
                   ELSE UnknownPrefix \o Slice0(email.id, 8),
               serviceAddress |->
                 IF wo.service_address # "" THEN wo.service_address ELSE NULL,
               jobType |-> NULL,
               userId |-> UNSET]])

\* JSON.parse throwing, and wo.amount throwing on a null element inside the
\* map, both end in the catch, which returns null.
parseAiResponse(reply, email) ==
  IF reply.kind = "invalid_json" THEN AiNull
  ELSE IF reply.kind \in {"missing_workOrders", "workOrders_not_array"} THEN AiNull
  ELSE IF Len(reply.workOrders) = 0 THEN AiList(<<>>)
  ELSE IF \E k \in 1..Len(reply.workOrders) : reply.workOrders[k].isNull
    THEN AiNull
  ELSE AiList([k \in 1..Len(reply.workOrders) |->
          LET wo == reply.workOrders[k]
          IN  [workOrderNumber |->
                 IF wo.work_order_number # <<>>
                   THEN wo.work_order_number
                   ELSE UnknownPrefix \o Slice0(email.id, 8),
               serviceAddress |->
                 IF wo.service_address # "" THEN wo.service_address ELSE NULL,
               jobType |-> NULL,
               userId |-> UNSET]])

\* enabled: isAiParsingEnabled(); textOk[k]: the k-th PDF attachment yielded
\* text (no UNAVAILABLE_PDF_CONTENT placeholder); reply: the model's reply.
aiParseWorkOrdersFromEmail(email, enabled, textOk, reply) ==
  LET pdfAttachments == PdfAttachments(email)
      pdfTexts == SelectIdx(Len(pdfAttachments), textOk, 1)
  IN  IF ~enabled THEN AiNull
      ELSE IF Len(pdfAttachments) = 0 THEN AiNull
      ELSE IF Len(pdfTexts) = 0 THEN AiNull
      ELSE IF reply.kind = "rejected" THEN AiNull
      ELSE IF reply.kind = "no_content" THEN AiNull
      ELSE parseAiResponse(reply, email)

----------------------------------------------------------------------------
(* State.                                                                  *)

Users == {"uA", "uB"}
\* The userId of a call: a session's user, or null without a session.
Tenants == Users \cup {NULL}

\* Invocation frames of processSingleEmailMessage.  Spec, RetrySpec and
\* LiveSpec start an invocation only when none is in flight (BeginAlone,
\* BeginRetry, BeginLive), so they use the first frame only; RaceSpec has
\* invocations overlap and uses them all.
MaxInFlight == 2
Procs == 1..MaxInFlight

\* Invocations started in one behaviour.
MaxCalls == 2

VARIABLES
  aiEnabled,        \* !!process.env.OPENAI_API_KEY
  emailStatus,      \* email_messages.processing_status, by email id
  store,            \* the work_orders table: a bag of rows
  pc,               \* where each invocation stands
  emailId,          \* its emailId argument
  userId,           \* its userId argument
  loadedStatus,     \* email.processingStatus of the email it loaded
  aiResult,         \* its aiResult
  candidateInputs,  \* its candidateInputs
  newInputs,        \* its newInputs
  duplicateNumbers, \* its duplicateNumbers
  created,          \* its created
  result,           \* what it returned
  thrown,           \* what it threw
  statusWrites,     \* how many times it has run updateStatus
  prev,             \* the invocation that ended last
  calls,            \* invocations started so far
  post,             \* the last POST /api/work-orders and its response
  builder,          \* a call of buildWorkOrderInputsFromEmail
  locator,          \* a call of extractWorkOrderNumberFromText
  pdf,              \* a call of extractTextFromPdfBuffer
  ai                \* a call of aiParseWorkOrdersFromEmail

vars == <<aiEnabled, emailStatus, store, pc, emailId, userId, loadedStatus,
          aiResult, candidateInputs, newInputs, duplicateNumbers, created,
          result, thrown, statusWrites, prev, calls, post, builder, locator,
          pdf, ai>>

\* The calls of the pure functions, checked on their own.
fnVars == <<builder, locator, pdf, ai>>

locals == <<emailId, userId, loadedStatus, aiResult, candidateInputs,
            newInputs, duplicateNumbers, created, result, thrown,
            statusWrites>>

\* result: nothing returned yet, null returned, or a ProcessEmailResult
\* (kind "value").
NoResult == [kind |-> "none"]
NullResult == [kind |-> "null"]

\* post before any POST /api/work-orders.
NoPost ==
  [n |-> 0, session |-> NULL, body |-> [kind |-> "none", workOrders |-> <<>>],
   status |-> 0, saved |-> <<>>]

\* A pure function that is not being called.
NoCall == [state |-> "none"]

\* prev before any invocation has ended.
NoPrev ==
  [emailId |-> NULL, userId |-> NULL, candidateInputs |-> <<>>,
   created |-> <<>>, completed |-> FALSE, retained |-> FALSE]

\* The stores and the invocations of processSingleEmailMessage and of the
\* POST route at the start.
ProcessingInit ==
  /\ aiEnabled \in BOOLEAN
  /\ emailStatus = [e \in StoredEmailIds |-> "new"]
  /\ store = EmptyBag
  /\ pc = [p \in Procs |-> "idle"]
  /\ emailId = [p \in Procs |-> NULL]
  /\ userId = [p \in Procs |-> NULL]
  /\ loadedStatus = [p \in Procs |-> NULL]
  /\ aiResult = [p \in Procs |-> AiNull]
  /\ candidateInputs = [p \in Procs |-> <<>>]
  /\ newInputs = [p \in Procs |-> <<>>]
  /\ duplicateNumbers = [p \in Procs |-> <<>>]
  /\ created = [p \in Procs |-> <<>>]
  /\ result = [p \in Procs |-> NoResult]
  /\ thrown = [p \in Procs |-> NULL]
  /\ statusWrites = [p \in Procs |-> 0]
  /\ prev = NoPrev
  /\ calls = 0
  /\ post = NoPost

Init ==
  /\ ProcessingInit
  /\ builder = NoCall
  /\ locator = NoCall
  /\ pdf = NoCall
  /\ ai = NoCall

----------------------------------------------------------------------------
(* The repositories.                                                       *)

\* The bag of the elements of a sequence.
BagOfSeq(s) ==
  [x \in {s[i] : i \in 1..Len(s)} |-> Cardinality({i \in 1..Len(s) : s[i] = x})]

\* The table restricted to some of its rows.
SelectRows(table, rows) ==
  [r \in rows |-> table[r]]

\* Variant of OwnedBy: a null userId adds no condition on the owner.
OwnedByUnlessNull(row, u) == u = NULL \/ row.userId = u

\* userId === null ? isNull(workOrders.userId) : eq(workOrders.userId, userId)
OwnedBy(row, u) == row.userId = u

\* DrizzleWorkOrderRepository.findByWorkOrderNumbers: the matching rows.
findByWorkOrderNumbers(table, u, numbers) ==
  IF Len(numbers) = 0
    THEN EmptyBag
    ELSE SelectRows(table,
           {row \in DOMAIN table :
              /\ OwnedBy(row, u)
              /\ \E i \in 1..Len(numbers) : numbers[i] = row.workOrderNumber})

\* Variant of saveMany: the rows that have the number of an input, whoever
\* owns them, are replaced by the input.
saveManyReplacing(table, input) ==
  SelectRows(table,
    {row \in DOMAIN table :
       ~\E k \in 1..Len(input) :
          input[k].workOrderNumber = row.workOrderNumber})
  (+) BagOfSeq(input)

\* DrizzleWorkOrderRepository.saveMany: the table after the insert.  Every
\* input becomes a row of its own.
saveMany(table, input) == table (+) BagOfSeq(input)

\* DrizzleWorkOrderRepository.clearForUser: the table after the delete.
clearForUser(table, u) ==
  SelectRows(table, {row \in DOMAIN table : ~OwnedBy(row, u)})

\* DrizzleEmailMessageRepository.getById, for an id that has a row; an id
\* without a row (id \notin StoredEmailIds) gives null.
getById(id) == EmailTable[id]

\* DrizzleEmailMessageRepository.updateStatus: the statuses after the update.
updateStatus(statuses, id, status) ==
  IF id \in DOMAIN statuses THEN [statuses EXCEPT ![id] = status] ELSE statuses

----------------------------------------------------------------------------
(* processSingleEmailMessage, one action per await.                        *)

AwaitPoints ==
  {"getById", "aiParseWorkOrdersFromEmail", "updateStatusNoCandidates",
   "findByWorkOrderNumbers", "saveMany", "updateStatus"}

\* Awaits on a repository.
RepoAwaitPoints == AwaitPoints \ {"aiParseWorkOrdersFromEmail"}

EndPoints == {"done", "threw", "cancelled"}

\* The call is made: processSingleEmailMessage(id, u).
Begin(p, id, u) ==
  /\ pc[p] = "idle"
  /\ pc' = [pc EXCEPT ![p] = "getById"]
  /\ emailId' = [emailId EXCEPT ![p] = id]
  /\ userId' = [userId EXCEPT ![p] = u]
  /\ calls' = calls + 1
  /\ UNCHANGED <<fnVars, statusWrites, post, aiEnabled, emailStatus, store, loadedStatus, aiResult,
                 candidateInputs, newInputs, duplicateNumbers, created,
                 result, thrown, prev>>

\* A call made while no other call is in flight.
BeginAlone(id, u) ==
  /\ \A q \in Procs : pc[q] = "idle"
  /\ calls < MaxCalls
  /\ Begin(1, id, u)

\* Variant of GetById: an unknown id gives an empty result instead of null.
GetByIdEmptyResult(p) ==
  /\ pc[p] = "getById"
  /\ IF emailId[p] \notin StoredEmailIds
       THEN /\ result' = [result EXCEPT ![p] =
                            [kind |-> "value",
                             emailStatus |-> NULL,
                             createdWorkOrders |-> <<>>,
                             skippedAsDuplicate |-> FALSE,
                             duplicateWorkOrderNumbers |-> <<>>]]
            /\ pc' = [pc EXCEPT ![p] = "done"]
            /\ UNCHANGED loadedStatus
       ELSE /\ loadedStatus' = [loadedStatus EXCEPT ![p] =
                                  emailStatus[emailId[p]]]
            /\ pc' = [pc EXCEPT ![p] = "aiParseWorkOrdersFromEmail"]
            /\ UNCHANGED result
  /\ UNCHANGED <<fnVars, statusWrites, post, aiEnabled, emailStatus, store, emailId, userId, aiResult,
                 candidateInputs, newInputs, duplicateNumbers, created,
                 thrown, prev, calls>>

\* 1) Load the email; return null when there is none.
GetById(p) ==
  /\ pc[p] = "getById"
  /\ IF emailId[p] \notin StoredEmailIds
       THEN /\ result' = [result EXCEPT ![p] = NullResult]
            /\ pc' = [pc EXCEPT ![p] = "done"]
            /\ UNCHANGED loadedStatus
       ELSE /\ loadedStatus' = [loadedStatus EXCEPT ![p] =
                                  emailStatus[emailId[p]]]
            /\ pc' = [pc EXCEPT ![p] = "aiParseWorkOrdersFromEmail"]
            /\ UNCHANGED result
  /\ UNCHANGED <<fnVars, statusWrites, post, aiEnabled, emailStatus, store, emailId, userId, aiResult,
                 candidateInputs, newInputs, duplicateNumbers, created,
                 thrown, prev, calls>>

\* ruleBasedInputs.map((wo) => ({ ...wo, userId }))
WithUserId(inputs, u) ==
  [k \in 1..Len(inputs) |-> [inputs[k] EXCEPT !.userId = u]]

\* Variant of SelectCandidates: "if (aiResult)" without the length test.
SelectCandidatesNoLengthTest(outcome, ruleBasedInputs, u) ==
  IF outcome.kind = "thrown"
    THEN WithUserId(ruleBasedInputs, u)
  ELSE IF outcome.kind # "null"
    THEN outcome.list
  ELSE WithUserId(ruleBasedInputs, u)

\* buildWorkOrderInputsFromEmail(email) of each stored email.
RuleBasedInputsOf ==
  [id \in StoredEmailIds |-> buildWorkOrderInputsFromEmail(getById(id))]

\* 2) candidateInputs after the try/catch around the AI parser;
\* ruleBasedInputs is buildWorkOrderInputsFromEmail(email).
SelectCandidates(outcome, ruleBasedInputs, u) ==
  IF outcome.kind = "thrown"
    THEN WithUserId(ruleBasedInputs, u)
  ELSE IF outcome.kind # "null" /\ Len(outcome.list) > 0
    THEN outcome.list
  ELSE WithUserId(ruleBasedInputs, u)

\* What the awaited AI extractor can hand back for an email: its return
\* value for some PDFs yielding text and some reply of the model, or a
\* rejection (which the catch of the caller handles).
AiOutcomes(email, enabled) ==
  {AiThrown} \cup
  { aiParseWorkOrdersFromEmail(email, enabled, textOk, reply) :
      textOk \in [1..Len(PdfAttachments(email)) -> BOOLEAN],
      reply \in AiReplies }

\* AiOutcomes of each stored email, with and without an API key.
AiOutcomesOf ==
  [id \in StoredEmailIds |->
     [enabled \in BOOLEAN |-> AiOutcomes(getById(id), enabled)]]

\* Variant of TryAiParser: no catch around the AI parser, a rejection
\* propagates to the caller.
TryAiParserNoCatch(p) ==
  /\ pc[p] = "aiParseWorkOrdersFromEmail"
  /\ LET ruleBasedInputs == RuleBasedInputsOf[emailId[p]]
     IN  \E outcome \in AiOutcomesOf[emailId[p]][aiEnabled] :
           LET cands == IF outcome.kind = "thrown" THEN <<>>
                        ELSE SelectCandidates(outcome, ruleBasedInputs,
                                              userId[p])
           IN  /\ aiResult' = [aiResult EXCEPT ![p] = outcome]
               /\ candidateInputs' = [candidateInputs EXCEPT ![p] = cands]
               /\ thrown' = [thrown EXCEPT ![p] =
                               IF outcome.kind = "thrown" THEN "AiError"
                               ELSE thrown[p]]
               /\ pc' = [pc EXCEPT ![p] =
                           IF outcome.kind = "thrown" THEN "threw"
                           ELSE IF Len(cands) = 0 THEN "updateStatusNoCandidates"
                           ELSE "findByWorkOrderNumbers"]
  /\ UNCHANGED <<fnVars, statusWrites, post, aiEnabled, emailStatus, store, emailId, userId,
                 loadedStatus, newInputs, duplicateNumbers, created, result,
                 prev, calls>>

TryAiParser(p) ==
  /\ pc[p] = "aiParseWorkOrdersFromEmail"
  /\ LET ruleBasedInputs == RuleBasedInputsOf[emailId[p]]
     IN  \E outcome \in AiOutcomesOf[emailId[p]][aiEnabled] :
           LET cands == SelectCandidates(outcome, ruleBasedInputs, userId[p])
           IN  /\ aiResult' = [aiResult EXCEPT ![p] = outcome]
               /\ candidateInputs' = [candidateInputs EXCEPT ![p] = cands]
               /\ pc' = [pc EXCEPT ![p] =
                           IF Len(cands) = 0 THEN "updateStatusNoCandidates"
                           ELSE "findByWorkOrderNumbers"]
  /\ UNCHANGED <<fnVars, statusWrites, post, aiEnabled, emailStatus, store, emailId, userId,
                 loadedStatus, newInputs, duplicateNumbers, created, result,
                 thrown, prev, calls>>

\* Variant of UpdateStatusNoCandidates: returns without the status update.
UpdateStatusNoCandidatesUnmarked(p) ==
  /\ pc[p] = "updateStatusNoCandidates"
  /\ result' = [result EXCEPT ![p] =
                  [kind |-> "value",
                   emailStatus |-> emailStatus[emailId[p]],
                   createdWorkOrders |-> <<>>,
                   skippedAsDuplicate |-> FALSE,
                   duplicateWorkOrderNumbers |-> <<>>]]
  /\ pc' = [pc EXCEPT ![p] = "done"]
  /\ UNCHANGED <<fnVars, statusWrites, post, aiEnabled, emailStatus, store, emailId, userId,
                 loadedStatus, aiResult, candidateInputs, newInputs,
                 duplicateNumbers, created, thrown, prev, calls>>

\* No candidates: mark the email processed and return.
UpdateStatusNoCandidates(p) ==
  /\ pc[p] = "updateStatusNoCandidates"
  /\ statusWrites' = [statusWrites EXCEPT ![p] = @ + 1]
  /\ emailStatus' = updateStatus(emailStatus, emailId[p], "processed")
  /\ result' = [result EXCEPT ![p] =
                  [kind |-> "value",
                   emailStatus |-> emailStatus'[emailId[p]],
                   createdWorkOrders |-> <<>>,
                   skippedAsDuplicate |-> FALSE,
                   duplicateWorkOrderNumbers |-> <<>>]]
  /\ pc' = [pc EXCEPT ![p] = "done"]
  /\ UNCHANGED <<fnVars, post, aiEnabled, store, emailId, userId, loadedStatus, aiResult,
                 candidateInputs, newInputs, duplicateNumbers, created,
                 thrown, prev, calls>>

\* Variant of InputsWithUserId: the candidates are passed on as they are.
InputsAsExtracted(p) == candidateInputs[p]

\* 3) candidateInputs.map((w) => ({ ...w, userId }))
InputsWithUserId(p) == WithUserId(candidateInputs[p], userId[p])

\* inputsWithUserId.map((w) => w.workOrderNumber)
NumbersOf(inputs) == [k \in 1..Len(inputs) |-> inputs[k].workOrderNumber]

\* Variant of ExistingNumbers: the rows of every tenant are looked at.
ExistingNumbersAnyTenant(table, u, numbers) ==
  {row.workOrderNumber :
     row \in {r \in DOMAIN table :
                \E i \in 1..Len(numbers) : numbers[i] = r.workOrderNumber}}

\* new Set(existing.map((w) => w.workOrderNumber))
ExistingNumbers(table, u, numbers) ==
  {row.workOrderNumber : row \in DOMAIN findByWorkOrderNumbers(table, u, numbers)}

\* Variant of FilterNew: the filter on existingNumbers is dropped.
FilterNewKeepsAll(inputs, existingNumbers) == inputs

\* inputsWithUserId.filter((w) => !existingNumbers.has(w.workOrderNumber))
FilterNew(inputs, existingNumbers) ==
  LET keep == [k \in 1..Len(inputs) |->
                 inputs[k].workOrderNumber \notin existingNumbers]
      idx == SelectIdx(Len(inputs), keep, 1)
  IN  [k \in 1..Len(idx) |-> inputs[idx[k]]]

\* Variant of FilterDuplicates: every candidate number is reported.
FilterDuplicatesReportsAll(numbers, existingNumbers) == numbers

\* Variant of FilterDuplicates: the test is inverted.
FilterDuplicatesInverted(numbers, existingNumbers) ==
  LET keep == [k \in 1..Len(numbers) |-> numbers[k] \notin existingNumbers]
      idx == SelectIdx(Len(numbers), keep, 1)
  IN  [k \in 1..Len(idx) |-> numbers[idx[k]]]

\* numbers.filter((n) => existingNumbers.has(n))
FilterDuplicates(numbers, existingNumbers) ==
  LET keep == [k \in 1..Len(numbers) |-> numbers[k] \in existingNumbers]
      idx == SelectIdx(Len(numbers), keep, 1)
  IN  [k \in 1..Len(idx) |-> numbers[idx[k]]]

\* Variant of FindByWorkOrderNumbers: an email that is already processed or
\* skipped_duplicate has all its candidates taken as duplicates.
FindByWorkOrderNumbersSettledSkips(p) ==
  /\ pc[p] = "findByWorkOrderNumbers"
  /\ LET inputs == InputsWithUserId(p)
         numbers == NumbersOf(inputs)
         existingNumbers ==
           IF loadedStatus[p] \in EmailProcessingStatus \ {"new"}
             THEN {numbers[k] : k \in 1..Len(numbers)}
             ELSE ExistingNumbers(store, userId[p], numbers)
         new == FilterNew(inputs, existingNumbers)
     IN  /\ newInputs' = [newInputs EXCEPT ![p] = new]
         /\ duplicateNumbers' = [duplicateNumbers EXCEPT ![p] =
                                   FilterDuplicates(numbers, existingNumbers)]
         /\ pc' = [pc EXCEPT ![p] =
                     IF Len(new) > 0 THEN "saveMany" ELSE "updateStatus"]
  /\ UNCHANGED <<fnVars, statusWrites, post, aiEnabled, emailStatus, store, emailId, userId,
                 loadedStatus, aiResult, candidateInputs, created, result,
                 thrown, prev, calls>>

\* 4) The duplicate lookup and the partition of the candidates.
FindByWorkOrderNumbers(p) ==
  /\ pc[p] = "findByWorkOrderNumbers"
  /\ LET inputs == InputsWithUserId(p)
         numbers == NumbersOf(inputs)
         existingNumbers == ExistingNumbers(store, userId[p], numbers)
         new == FilterNew(inputs, existingNumbers)
     IN  /\ newInputs' = [newInputs EXCEPT ![p] = new]
         /\ duplicateNumbers' = [duplicateNumbers EXCEPT ![p] =
                                   FilterDuplicates(numbers, existingNumbers)]
         /\ pc' = [pc EXCEPT ![p] =
                     IF Len(new) > 0 THEN "saveMany" ELSE "updateStatus"]
  /\ UNCHANGED <<fnVars, statusWrites, post, aiEnabled, emailStatus, store, emailId, userId,
                 loadedStatus, aiResult, candidateInputs, created, result,
                 thrown, prev, calls>>

\* Variant of SaveMany: the email is marked processed as soon as the insert
\* has been made.
SaveManyThenMark(p) ==
  /\ pc[p] = "saveMany"
  /\ statusWrites' = [statusWrites EXCEPT ![p] = @ + 1]
  /\ store' = saveMany(store, newInputs[p])
  /\ created' = [created EXCEPT ![p] = newInputs[p]]
  /\ emailStatus' = updateStatus(emailStatus, emailId[p], "processed")
  /\ pc' = [pc EXCEPT ![p] = "updateStatus"]
  /\ UNCHANGED <<fnVars, post, aiEnabled, emailId, userId, loadedStatus, aiResult,
                 candidateInputs, newInputs, duplicateNumbers, result, thrown,
                 prev, calls>>

\* Variant of SaveMany: the insert looks the numbers up again and leaves out
\* the inputs whose number the tenant holds by then.
SaveManyRechecked(p) ==
  /\ pc[p] = "saveMany"
  /\ LET stillNew ==
           FilterNew(newInputs[p],
                     ExistingNumbers(store, userId[p], NumbersOf(newInputs[p])))
     IN  /\ store' = saveMany(store, stillNew)
         /\ created' = [created EXCEPT ![p] = stillNew]
  /\ pc' = [pc EXCEPT ![p] = "updateStatus"]
  /\ UNCHANGED <<fnVars, statusWrites, post, aiEnabled, emailStatus, emailId, userId, loadedStatus,
                 aiResult, candidateInputs, newInputs, duplicateNumbers,
                 result, thrown, prev, calls>>

\* Insert the new inputs.
SaveMany(p) ==
  /\ pc[p] = "saveMany"
  /\ store' = saveMany(store, newInputs[p])
  /\ created' = [created EXCEPT ![p] = newInputs[p]]
  /\ pc' = [pc EXCEPT ![p] = "updateStatus"]
  /\ UNCHANGED <<fnVars, statusWrites, post, aiEnabled, emailStatus, emailId, userId, loadedStatus,
                 aiResult, candidateInputs, newInputs, duplicateNumbers,
                 result, thrown, prev, calls>>

\* Variant of SkippedAsDuplicate: any duplicate counts.
SkippedOnAnyDuplicate(createdRows, duplicates) == Len(duplicates) > 0

\* created.length === 0 && duplicateNumbers.length > 0
SkippedAsDuplicate(createdRows, duplicates) ==
  Len(createdRows) = 0 /\ Len(duplicates) > 0

\* Variant of NewStatus: an email whose records were created is left as new.
NewStatusNewWhenCreated(skippedAsDuplicate) ==
  IF skippedAsDuplicate THEN "skipped_duplicate" ELSE "new"

\* Variant of NewStatus: an email that was all duplicates is put back to new.
NewStatusResetsWhenSkipped(skippedAsDuplicate) ==
  IF skippedAsDuplicate THEN "new" ELSE "processed"

\* skippedAsDuplicate ? "skipped_duplicate" : "processed"
NewStatus(skippedAsDuplicate) ==
  IF skippedAsDuplicate THEN "skipped_duplicate" ELSE "processed"

\* 5) Update the email's processingStatus and return.
UpdateStatus(p) ==
  /\ pc[p] = "updateStatus"
  /\ statusWrites' = [statusWrites EXCEPT ![p] = @ + 1]
  /\ LET skippedAsDuplicate == SkippedAsDuplicate(created[p], duplicateNumbers[p])
     IN  /\ emailStatus' = updateStatus(emailStatus, emailId[p],
                                        NewStatus(skippedAsDuplicate))
         /\ result' = [result EXCEPT ![p] =
                         [kind |-> "value",
                   emailStatus |-> emailStatus'[emailId[p]],
                          createdWorkOrders |-> created[p],
                          skippedAsDuplicate |-> skippedAsDuplicate,
                          duplicateWorkOrderNumbers |-> duplicateNumbers[p]]]
  /\ pc' = [pc EXCEPT ![p] = "done"]
  /\ UNCHANGED <<fnVars, post, aiEnabled, store, emailId, userId, loadedStatus, aiResult,
                 candidateInputs, newInputs, duplicateNumbers, created,
                 thrown, prev, calls>>

\* An awaited repository call rejects; the invocation rethrows.
RepoThrows(p) ==
  /\ pc[p] \in RepoAwaitPoints
  /\ pc' = [pc EXCEPT ![p] = "threw"]
  /\ thrown' = [thrown EXCEPT ![p] = "RepoError"]
  /\ UNCHANGED <<fnVars, statusWrites, post, aiEnabled, emailStatus, store, emailId, userId,
                 loadedStatus, aiResult, candidateInputs, newInputs,
                 duplicateNumbers, created, result, prev, calls>>

\* The invocation is abandoned at an await and never resumed.
Cancel(p) ==
  /\ pc[p] \in AwaitPoints
  /\ pc' = [pc EXCEPT ![p] = "cancelled"]
  /\ UNCHANGED <<fnVars, post, aiEnabled, emailStatus, store, locals, prev, calls>>

\* The caller has the outcome; the invocation's frame is gone.
ReleaseFrame(p) ==
  /\ pc[p] \in EndPoints
  /\ pc' = [pc EXCEPT ![p] = "idle"]
  /\ emailId' = [emailId EXCEPT ![p] = NULL]
  /\ userId' = [userId EXCEPT ![p] = NULL]
  /\ loadedStatus' = [loadedStatus EXCEPT ![p] = NULL]
  /\ aiResult' = [aiResult EXCEPT ![p] = AiNull]
  /\ candidateInputs' = [candidateInputs EXCEPT ![p] = <<>>]
  /\ newInputs' = [newInputs EXCEPT ![p] = <<>>]
  /\ duplicateNumbers' = [duplicateNumbers EXCEPT ![p] = <<>>]
  /\ created' = [created EXCEPT ![p] = <<>>]
  /\ result' = [result EXCEPT ![p] = NoResult]
  /\ thrown' = [thrown EXCEPT ![p] = NULL]
  /\ statusWrites' = [statusWrites EXCEPT ![p] = 0]
  /\ UNCHANGED <<fnVars, post, aiEnabled, emailStatus, store, calls>>

Return(p) ==
  /\ ReleaseFrame(p)
  /\ UNCHANGED prev

\* Return, remembering the invocation for the comparison with the next one.
ReturnRecorded(p) ==
  /\ ReleaseFrame(p)
  /\ prev' = [emailId |-> emailId[p],
              userId |-> userId[p],
              candidateInputs |-> candidateInputs[p],
              created |-> created[p],
              completed |-> (pc[p] = "done" /\ result[p].kind = "value"),
              retained |-> TRUE]

\* DELETE /api/work-orders for the session's user, between invocations.
ClearForUser(u) ==
  /\ \A q \in Procs : pc[q] = "idle"
  /\ store' = clearForUser(store, u)
  /\ prev' = [prev EXCEPT !.retained = FALSE]
  /\ UNCHANGED <<fnVars, post, aiEnabled, emailStatus, pc, locals, calls>>

\* Ids a caller asks for: the stored emails and one unknown id.
RequestIds == StoredEmailIds \cup {EMissing}

Next ==
  \/ \E id \in RequestIds, u \in Tenants : BeginAlone(id, u)
  \/ \E p \in Procs : GetById(p)
  \/ \E p \in Procs : TryAiParser(p)
  \/ \E p \in Procs : UpdateStatusNoCandidates(p)
  \/ \E p \in Procs : FindByWorkOrderNumbers(p)
  \/ \E p \in Procs : SaveMany(p)
  \/ \E p \in Procs : UpdateStatus(p)
  \/ \E p \in Procs : RepoThrows(p)
  \/ \E p \in Procs : Cancel(p)
  \/ \E p \in Procs : Return(p)
  \/ \E u \in Tenants : ClearForUser(u)

Spec == Init /\ [][Next]_vars

----------------------------------------------------------------------------
(* Repeated processing by one tenant, each invocation remembered when it   *)
(* returns so that the next one can be compared with it.                   *)

\* Invocations started in one behaviour of RetrySpec.
MaxRetryCalls == 3

RetryTenant == "uA"

BeginRetry(id) ==
  /\ \A q \in Procs : pc[q] = "idle"
  /\ calls < MaxRetryCalls
  /\ Begin(1, id, RetryTenant)

RetryNext ==
  \/ \E id \in StoredEmailIds : BeginRetry(id)
  \/ \E p \in Procs : GetById(p)
  \/ \E p \in Procs : TryAiParser(p)
  \/ \E p \in Procs : UpdateStatusNoCandidates(p)
  \/ \E p \in Procs : FindByWorkOrderNumbers(p)
  \/ \E p \in Procs : SaveMany(p)
  \/ \E p \in Procs : UpdateStatus(p)
  \/ \E p \in Procs : RepoThrows(p)
  \/ \E p \in Procs : Cancel(p)
  \/ \E p \in Procs : ReturnRecorded(p)
  \/ ClearForUser(RetryTenant)

RetrySpec == Init /\ [][RetryNext]_vars

----------------------------------------------------------------------------
(* Progress of an invocation: the JavaScript event loop resumes every      *)
(* await whose promise settles, so each step of an invocation that is      *)
(* neither abandoned nor failed by a repository is eventually taken.       *)

\* Invocations started in one behaviour of LiveSpec.
MaxLiveCalls == 1

BeginLive(id, u) ==
  /\ \A q \in Procs : pc[q] = "idle"
  /\ calls < MaxLiveCalls
  /\ Begin(1, id, u)

LiveNext ==
  \/ \E id \in RequestIds, u \in Tenants : BeginLive(id, u)
  \/ \E p \in Procs : GetById(p)
  \/ \E p \in Procs : TryAiParser(p)
  \/ \E p \in Procs : UpdateStatusNoCandidates(p)
  \/ \E p \in Procs : FindByWorkOrderNumbers(p)
  \/ \E p \in Procs : SaveMany(p)
  \/ \E p \in Procs : UpdateStatus(p)
  \/ \E p \in Procs : RepoThrows(p)
  \/ \E p \in Procs : Cancel(p)
  \/ \E p \in Procs : Return(p)
  \/ \E u \in Tenants : ClearForUser(u)

LiveSpec ==
  /\ Init
  /\ [][LiveNext]_vars
  /\ \A p \in Procs :
       /\ WF_vars(GetById(p))
       /\ WF_vars(TryAiParser(p))
       /\ WF_vars(UpdateStatusNoCandidates(p))
       /\ WF_vars(FindByWorkOrderNumbers(p))
       /\ WF_vars(SaveMany(p))
       /\ WF_vars(UpdateStatus(p))

----------------------------------------------------------------------------
(* Concurrent processing: requests of one tenant are served as they come,  *)
(* each invocation interleaving with the others at its awaits.  Every      *)
(* await settles normally here; Spec has the invocations that stop early.  *)

\* Invocations started in one behaviour of RaceSpec.
MaxRaceCalls == 2

\* A request arrives and takes the first free frame.
BeginRace(p, id) ==
  /\ calls < MaxRaceCalls
  /\ \A q \in Procs : q < p => pc[q] # "idle"
  /\ Begin(p, id, RetryTenant)

RaceNext ==
  \/ \E p \in Procs, id \in StoredEmailIds : BeginRace(p, id)
  \/ \E p \in Procs : GetById(p)
  \/ \E p \in Procs : TryAiParser(p)
  \/ \E p \in Procs : UpdateStatusNoCandidates(p)
  \/ \E p \in Procs : FindByWorkOrderNumbers(p)
  \/ \E p \in Procs : SaveMany(p)
  \/ \E p \in Procs : UpdateStatus(p)
  \/ \E p \in Procs : Return(p)

RaceSpec == Init /\ [][RaceNext]_vars

----------------------------------------------------------------------------
(* POST /api/work-orders: work orders sent by the client are saved.        *)

\* An element of body.workOrders.  isObject is FALSE for null and for a
\* value that is no object; numberType is typeof wo.workOrderNumber
\* ("undefined" for a missing property, "object" for null), and
\* workOrderNumber is the string when it is one.
PostItem(isObject, numberType, number, owner) ==
  [isObject |-> isObject, numberType |-> numberType,
   workOrderNumber |-> number, serviceAddress |-> NULL, jobType |-> NULL,
   userId |-> owner]

\* The workOrders arrays clients send.
PostWorkOrderLists ==
  { <<>>,
    <<PostItem(TRUE, "string", N123456, UNSET)>>,
    <<PostItem(TRUE, "string", N123456, NULL)>>,
    <<PostItem(TRUE, "string", N123456, "uB")>>,
    <<PostItem(TRUE, "string", <<>>, UNSET)>>,
    <<PostItem(TRUE, "undefined", <<>>, UNSET)>>,
    <<PostItem(TRUE, "object", <<>>, UNSET)>>,
    <<PostItem(FALSE, "undefined", <<>>, UNSET)>>,
    <<PostItem(TRUE, "string", N700001, UNSET),
      PostItem(TRUE, "undefined", <<>>, UNSET)>>,
    <<PostItem(TRUE, "string", N700001, "uA"),
      PostItem(TRUE, "string", N123456, UNSET)>> }

\* The request bodies: no object, an object whose workOrders is no array,
\* and an object with a workOrders array.
PostBodies ==
  { [kind |-> k, workOrders |-> <<>>] : k \in {"not_object", "not_array"} }
  \cup { [kind |-> "array", workOrders |-> l] : l \in PostWorkOrderLists }

\* typeof wo.workOrderNumber === "string", for an object.
validateWorkOrderInput(input) ==
  /\ input.isObject
  /\ input.numberType = "string"

\* wo.userId ?? userId ?? null
PostOwner(wo, sessionUserId) ==
  IF wo.userId \notin {UNSET, NULL} THEN wo.userId ELSE sessionUserId

\* body.workOrders.map((wo) => ({ ...wo, userId: wo.userId ?? userId ?? null }))
workOrdersWithUserId(workOrders, sessionUserId) ==
  [k \in 1..Len(workOrders) |->
     [workOrderNumber |-> workOrders[k].workOrderNumber,
      serviceAddress |-> workOrders[k].serviceAddress,
      jobType |-> workOrders[k].jobType,
      userId |-> PostOwner(workOrders[k], sessionUserId)]]

\* The response status of POST for a body, before the insert is tried.
PostStatusBeforeSave(dbConfigured, body) ==
  IF ~dbConfigured THEN 500
  ELSE IF body.kind # "array" THEN 400
  ELSE IF \E k \in 1..Len(body.workOrders) :
            ~validateWorkOrderInput(body.workOrders[k]) THEN 400
  ELSE 200

\* POST requests in one behaviour of PostSpec.
MaxPosts == 2

\* One POST /api/work-orders: sessionUserId is session?.userId ?? null,
\* dbConfigured is !!process.env.PG_CONNECTION_STRING, saveOk says whether
\* the awaited saveMany fulfils (a rejection is caught: 500).
PostWorkOrders(sessionUserId, dbConfigured, body, saveOk) ==
  /\ post.n < MaxPosts
  /\ LET checked == PostStatusBeforeSave(dbConfigured, body)
         rows == workOrdersWithUserId(body.workOrders, sessionUserId)
         saved == checked = 200 /\ saveOk
     IN  /\ store' = IF saved THEN saveMany(store, rows) ELSE store
         /\ post' = [n |-> post.n + 1,
                     session |-> sessionUserId,
                     body |-> body,
                     status |-> IF checked = 200 /\ ~saveOk THEN 500 ELSE checked,
                     saved |-> IF saved THEN rows ELSE <<>>]
  /\ UNCHANGED <<fnVars, aiEnabled, emailStatus, pc, locals, prev, calls>>

PostNext ==
  \/ \E u \in Tenants, dbConfigured \in BOOLEAN, body \in PostBodies,
        saveOk \in BOOLEAN : PostWorkOrders(u, dbConfigured, body, saveOk)
  \/ \E u \in Tenants : ClearForUser(u)

PostSpec == Init /\ [][PostNext]_vars

----------------------------------------------------------------------------
(* buildWorkOrderInputsFromEmail on its own: a call with some email, then  *)
(* its return.                                                             *)

\* Longest attachment list of the emails the function is called with.
MaxAttachments == 3

F1898060 == <<"1","8","9","8","0","6","0",".","p","d","f">>
FNoNumber == <<"a",".","p","d","f">>
FWo55555 == <<"w","o","#","5","5","5","5","5",".","P","D","F">>
MimeXPdf == <<"x","-","P","d","f","+","z">>

BuildFilenames == {F1898060, FNoNumber, FWo55555}
BuildMimeTypes == {MimePdf, MimePdfUpper, MimePng, MimeXPdf}
BuildSubjects == {<<"h","i">>, <<"W","O"," ","6","5","4","3","2","1">>}

BuildAttachments ==
  {[filename |-> f, mimeType |-> m] : f \in BuildFilenames, m \in BuildMimeTypes}

BuildEmails ==
  {[id |-> E1, subject |-> subj, attachments |-> atts] :
     subj \in BuildSubjects,
     atts \in UNION {[1..n -> BuildAttachments] : n \in 0..MaxAttachments}}

BuildInit ==
  /\ ProcessingInit
  /\ locator = NoCall
  /\ pdf = NoCall
  /\ ai = NoCall
  /\ \E email \in BuildEmails :
       builder = [state |-> "called", email |-> email, inputs |-> <<>>]

\* The call returns.
BuildWorkOrderInputsFromEmail ==
  /\ builder.state = "called"
  /\ builder' = [builder EXCEPT
                   !.state = "returned",
                   !.inputs = buildWorkOrderInputsFromEmail(builder.email)]
  /\ UNCHANGED <<locator, pdf, ai, post, aiEnabled, emailStatus, store, pc, locals,
                 prev, calls>>

BuildNext == BuildWorkOrderInputsFromEmail

BuildSpec == BuildInit /\ [][BuildNext]_vars

----------------------------------------------------------------------------
(* extractWorkOrderNumberFromText on its own: a call with some text, then  *)
(* its return.  A text is a prefix, a marker, a run of digits and a        *)
(* suffix.                                                                 *)

\* Longest run of digits after the marker.
MaxRunLength == 12

\* The first n characters of 123456789012...
DigitRun(n) ==
  [i \in 1..n |->
     <<"0", "1", "2", "3", "4", "5", "6", "7", "8", "9">>[(i % 10) + 1]]

TextPrefixes ==
  { <<>>,
    <<"R","e",":"," ">>,
    <<"1","2","3","4"," ">>,
    <<"9","8","7","6","5","4"," ">>,
    <<"T","W","O"," ","5","5","5","5","5"," ">>,
    <<"i","d","_">> }

TextMarkers ==
  { <<>>,
    <<"W","O">>,
    <<"w","o","#">>,
    <<"W","o","#"," "," ">>,
    <<"W","O"," ">>,
    <<"W","O"," ","#">>,
    <<"#">> }

TextSuffixes ==
  { <<>>,
    <<".","p","d","f">>,
    <<" ","4","3","2","1">>,
    <<" ","7","7","7","7","7","7","7">>,
    <<"_","v","2">>,
    <<"a">> }

Texts ==
  {prefix \o marker \o DigitRun(n) \o suffix :
     prefix \in TextPrefixes, marker \in TextMarkers,
     n \in 0..MaxRunLength, suffix \in TextSuffixes}

LocatorInit ==
  /\ ProcessingInit
  /\ builder = NoCall
  /\ pdf = NoCall
  /\ ai = NoCall
  /\ \E text \in Texts :
       locator = [state |-> "called", text |-> text,
                  found |-> FALSE, number |-> <<>>]

\* The call returns: found tells a number from null.
ExtractWorkOrderNumberFromText ==
  /\ locator.state = "called"
  /\ LET number == extractWorkOrderNumberFromText(locator.text)
     IN  locator' = [locator EXCEPT
                       !.state = "returned",
                       !.found = (number # NULL),
                       !.number = IF number # NULL THEN number ELSE <<>>]
  /\ UNCHANGED <<builder, pdf, ai, post, aiEnabled, emailStatus, store, pc, locals,
                 prev, calls>>

LocatorNext == ExtractWorkOrderNumberFromText

LocatorSpec == LocatorInit /\ [][LocatorNext]_vars

----------------------------------------------------------------------------
(* extractTextFromPdfBuffer: pdf-parse first, pdfjs-dist as the fallback.  *)
(* What the two libraries do with the buffer is their business: a run of   *)
(* an engine has any of its outcomes.                                      *)

\* String.prototype.trim.
RECURSIVE TrimStart(_)
TrimStart(s) ==
  IF s # <<>> /\ Head(s) \in Whitespace THEN TrimStart(Tail(s)) ELSE s

RECURSIVE TrimEnd(_)
TrimEnd(s) ==
  IF s # <<>> /\ s[Len(s)] \in Whitespace
    THEN TrimEnd(SubSeq(s, 1, Len(s) - 1)) ELSE s

Trim(s) == TrimEnd(TrimStart(s))

\* Array.prototype.join.
RECURSIVE Join(_, _)
Join(strs, separator) ==
  IF Len(strs) = 0 THEN <<>>
  ELSE IF Len(strs) = 1 THEN strs[1]
  ELSE strs[1] \o separator \o Join(Tail(strs), separator)

\* What data.text of pdf-parse can be.
RawTexts ==
  { <<>>,
    <<" ">>,
    <<"\n", "\t">>,
    <<"a">>,
    <<" ", "W", "O", " ", "1", " ", "\n">>,
    <<"\n", "b">> }

\* A run of pdf-parse: the module or the call throws, the module exports no
\* function, data has no text, or data.text is some text.
PdfParseOutcomes ==
  {[kind |-> k, text |-> <<>>] : k \in {"throws", "notFunction", "noText"}}
    \cup {[kind |-> "text", text |-> t] : t \in RawTexts}

\* Most pages of a document pdfjs-dist opens.
MaxPages == 2

\* A text item of a page: with or without str.
NoStr == [hasStr |-> FALSE, str |-> <<>>]
Str(chars) == [hasStr |-> TRUE, str |-> chars]

\* content.items of a page.
PageItems ==
  { <<>>,
    <<NoStr>>,
    <<Str(<<>>), Str(<<" ">>)>>,
    <<Str(<<"a">>)>>,
    <<Str(<<" ", "b">>), NoStr, Str(<<"c">>)>> }

\* A run of pdfjs-dist: loading or reading throws, or every page is read.
PdfJsOutcomes ==
  {[kind |-> "throws", pages |-> <<>>]}
    \cup {[kind |-> "pages", pages |-> pages] :
            pages \in UNION {[1..n -> PageItems] : n \in 0..MaxPages}}

\* items.map((item) => item.str ?? "").join(" ")
PageText(items) ==
  Join([k \in 1..Len(items) |->
          IF items[k].hasStr THEN items[k].str ELSE <<>>], <<" ">>)

\* fullText after the loop over the pages.
RECURSIVE FullText(_)
FullText(pages) ==
  IF Len(pages) = 0 THEN <<>>
  ELSE PageText(pages[1]) \o <<"\n", "\n">> \o FullText(Tail(pages))

NoEngine == [kind |-> "notRun"]

PdfInit ==
  /\ ProcessingInit
  /\ builder = NoCall
  /\ locator = NoCall
  /\ ai = NoCall
  /\ pdf = [state |-> "pdfParse", primary |-> NoEngine, fallback |-> NoEngine,
            text |-> <<>>]

\* Variant of PdfParse: the text of pdf-parse is returned without the test
\* that it is not empty.
PdfParseAnyText ==
  /\ pdf.state = "pdfParse"
  /\ \E outcome \in PdfParseOutcomes :
       LET text == Trim(outcome.text)
       IN  pdf' = [pdf EXCEPT
                     !.primary = outcome,
                     !.state = IF outcome.kind \in {"text", "noText"}
                                 THEN "returned" ELSE "pdfjs",
                     !.text = IF outcome.kind \in {"text", "noText"}
                                THEN text ELSE <<>>]
  /\ UNCHANGED <<builder, locator, ai, post, aiEnabled, emailStatus, store, pc,
                 locals, prev, calls>>

\* The first try block: pdf-parse runs; its trimmed text is returned when it
\* is not empty, anything else leads to the fallback.
PdfParse ==
  /\ pdf.state = "pdfParse"
  /\ \E outcome \in PdfParseOutcomes :
       LET text == Trim(outcome.text)
       IN  pdf' = [pdf EXCEPT
                     !.primary = outcome,
                     !.state = IF outcome.kind = "text" /\ text # <<>>
                                 THEN "returned" ELSE "pdfjs",
                     !.text = IF outcome.kind = "text" THEN text ELSE <<>>]
  /\ UNCHANGED <<builder, locator, ai, post, aiEnabled, emailStatus, store, pc,
                 locals, prev, calls>>

\* The second try block: pdfjs-dist runs; its trimmed text is returned when
\* it is not empty; an empty text throws like a failure of the library, and
\* the catch throws "PDF parsing failed".
PdfJs ==
  /\ pdf.state = "pdfjs"
  /\ \E outcome \in PdfJsOutcomes :
       LET trimmed == Trim(FullText(outcome.pages))
       IN  pdf' = [pdf EXCEPT
                     !.fallback = outcome,
                     !.state = IF outcome.kind = "pages" /\ trimmed # <<>>
                                 THEN "returned" ELSE "threw",
                     !.text = IF outcome.kind = "pages" THEN trimmed ELSE <<>>]
  /\ UNCHANGED <<builder, locator, ai, post, aiEnabled, emailStatus, store, pc,
                 locals, prev, calls>>

PdfNext ==
  \/ PdfParse
  \/ PdfJs

PdfSpec == PdfInit /\ [][PdfNext]_vars

----------------------------------------------------------------------------
(* aiParseWorkOrdersFromEmail step by step: the configuration test, the    *)
(* filter, the loop over the PDF attachments (getPdfTextFromAttachment on  *)
(* each), the call of the language model and the parsing of its reply.     *)

\* String.prototype.startsWith.
StartsWith(s, prefix) ==
  Len(s) >= Len(prefix) /\ SubSeq(s, 1, Len(prefix)) = prefix

\* storageLocation: null (or empty), a URL, a local path.
LocNone == <<>>
LocHttps == <<"h","t","t","p","s",":","/","/","h","/","a">>
LocPath == <<"/","d","/","a">>

HttpPrefix == <<"h","t","t","p",":","/","/">>
HttpsPrefix == <<"h","t","t","p","s",":","/","/">>

\* What getPdfBufferFromAttachment runs into: no location, fetch rejecting,
\* a response that is not ok, arrayBuffer rejecting, readFile rejecting, or
\* the bytes.
LoadOutcomes(attachment) ==
  LET loc == attachment.storageLocation
  IN  IF loc = <<>> THEN {"noLocation"}
      ELSE IF StartsWith(loc, HttpPrefix) \/ StartsWith(loc, HttpsPrefix)
        THEN {"fetchThrows", "notOk", "arrayBufferThrows", "buffer"}
        ELSE {"readFileThrows", "buffer"}

\* const MAX_CHARS_PER_PDF = 8000
MaxCharsPerPdf == 8000

UnavailablePrefix ==
  <<"U","N","A","V","A","I","L","A","B","L","E","_",
    "P","D","F","_","C","O","N","T","E","N","T",":">>

\* Texts extractTextFromPdfBuffer returns: a short one, one that begins like
\* the placeholder of a failure, one longer than MaxCharsPerPdf.
TextShort == <<"W","O"," ","1">>
TextLikePlaceholder == UnavailablePrefix \o <<" ","s","e","e"," ","p","2">>
TextLong == [i \in 1..(MaxCharsPerPdf + 1) |-> "x"]

NotExtracted == [kind |-> "notRun", text |-> <<>>]

\* What extractTextFromPdfBuffer does with the bytes: it throws or returns
\* a text.
ExtractOutcomes ==
  {[kind |-> "throws", text |-> <<>>]}
    \cup {[kind |-> "text", text |-> t] :
            t \in {TextShort, TextLikePlaceholder, TextLong}}

\* getPdfTextFromAttachment: the text, or a placeholder that names the file.
getPdfTextFromAttachment(attachment, load, extract) ==
  IF load # "buffer"
    THEN UnavailablePrefix \o <<" ","C","o","u","l","d"," ","n","o","t"," ",
                                "l","o","a","d"," ">> \o attachment.filename
  ELSE IF extract.kind = "throws"
    THEN UnavailablePrefix \o <<" ","E","r","r","o","r"," ","p","a","r","s",
                                "i","n","g"," ">> \o attachment.filename
  ELSE extract.text

\* Longest attachment list of the emails the AI extractor is called with.
MaxAiAttachments == 2

AiAttachments ==
  { [filename |-> F1898060, mimeType |-> MimePdf, storageLocation |-> LocHttps],
    [filename |-> FNoNumber, mimeType |-> MimePdfUpper, storageLocation |-> LocPath],
    [filename |-> FWo55555, mimeType |-> MimePdf, storageLocation |-> LocNone],
    [filename |-> FNoNumber, mimeType |-> MimePng, storageLocation |-> LocPath] }

AiEmails ==
  {[id |-> E1, subject |-> <<"h","i">>, attachments |-> atts] :
     atts \in UNION {[1..n -> AiAttachments] : n \in 0..MaxAiAttachments}}

AiInit ==
  /\ ProcessingInit
  /\ builder = NoCall
  /\ locator = NoCall
  /\ pdf = NoCall
  /\ \E email \in AiEmails, enabled \in BOOLEAN :
       ai = [state |-> "start", enabled |-> enabled, email |-> email,
             next |-> 1, outcomes |-> <<>>, pdfTexts |-> <<>>,
             modelCalls |-> 0, sent |-> <<>>,
             reply |-> [kind |-> "none", workOrders |-> <<>>],
             ret |-> AiNull]

\* isAiParsingEnabled() and the filter on the MIME type.
AiStart ==
  /\ ai.state = "start"
  /\ ai' = [ai EXCEPT
              !.state = IF ~ai.enabled \/ Len(PdfAttachments(ai.email)) = 0
                          THEN "returned" ELSE "getPdfText"]
  /\ UNCHANGED <<builder, locator, pdf, post, aiEnabled, emailStatus, store,
                 pc, locals, prev, calls>>

\* Variant of PushPdfText: a placeholder is pushed like a text.
PushPdfTextAlways(pdfTexts, attachment, text) ==
  Append(pdfTexts, [filename |-> attachment.filename,
                    text |-> Slice0(text, MaxCharsPerPdf)])

\* pdfTexts after the loop body has run on the text of an attachment.
PushPdfText(pdfTexts, attachment, text) ==
  IF StartsWith(text, UnavailablePrefix)
    THEN pdfTexts
    ELSE Append(pdfTexts, [filename |-> attachment.filename,
                           text |-> Slice0(text, MaxCharsPerPdf)])

\* One turn of the loop; after the last one, null when no text was kept.
AiGetPdfText ==
  /\ ai.state = "getPdfText"
  /\ LET pdfAttachments == PdfAttachments(ai.email)
         attachment == pdfAttachments[ai.next]
     IN  \E load \in LoadOutcomes(attachment) :
           \E extract \in IF load = "buffer" THEN ExtractOutcomes
                                             ELSE {NotExtracted} :
             LET text == getPdfTextFromAttachment(attachment, load, extract)
                 pdfTexts == PushPdfText(ai.pdfTexts, attachment, text)
             IN  ai' = [ai EXCEPT
                          !.outcomes = Append(@, [load |-> load,
                                                  extract |-> extract]),
                          !.pdfTexts = pdfTexts,
                          !.next = @ + 1,
                          !.state = IF ai.next < Len(pdfAttachments)
                                      THEN "getPdfText"
                                    ELSE IF Len(pdfTexts) = 0 THEN "returned"
                                    ELSE "create"]
  /\ UNCHANGED <<builder, locator, pdf, post, aiEnabled, emailStatus, store,
                 pc, locals, prev, calls>>

\* client.chat.completions.create with the prompt built from pdfTexts, and
\* what is returned for its outcome.
AiCreate ==
  /\ ai.state = "create"
  /\ \E reply \in AiReplies :
       ai' = [ai EXCEPT
                !.state = "returned",
                !.modelCalls = @ + 1,
                !.sent = ai.pdfTexts,
                !.reply = reply,
                !.ret = IF reply.kind \in {"rejected", "no_content"}
                          THEN AiNull
                          ELSE parseAiResponse(reply, ai.email)]
  /\ UNCHANGED <<builder, locator, pdf, post, aiEnabled, emailStatus, store,
                 pc, locals, prev, calls>>

AiNext ==
  \/ AiStart
  \/ AiGetPdfText
  \/ AiCreate

AiSpec == AiInit /\ [][AiNext]_vars

----------------------------------------------------------------------------
(* Properties.                                                             *)

Terminal == EmailProcessingStatus \ {"new"}

\* The invocation returned a ProcessEmailResult.
Completed(p) == pc[p] = "done" /\ result[p].kind = "value"

RangeOf(s) == {s[i] : i \in 1..Len(s)}

\* The invocation is the second of two completed invocations in a row on the
\* same email and tenant, with the same candidates and the store kept.
SecondOfPair(p) ==
  /\ Completed(p)
  /\ prev.completed
  /\ prev.retained
  /\ prev.emailId = emailId[p]
  /\ prev.userId = userId[p]
  /\ prev.candidateInputs = candidateInputs[p]

\* C1 as stated: the second invocation of such a pair creates nothing and its
\* duplicateWorkOrderNumbers are the numbers the first invocation inserted.
C1_SecondReportsFirstInserts ==
  \A p \in Procs :
    SecondOfPair(p) =>
      /\ result[p].createdWorkOrders = <<>>
      /\ result[p].duplicateWorkOrderNumbers = NumbersOf(prev.created)

\* C1 amended: the second invocation of such a pair creates nothing and its
\* duplicateWorkOrderNumbers are the numbers of all its candidates; they
\* contain every number the first invocation inserted, and are exactly those
\* numbers when the first invocation inserted every candidate.
C1_SecondReportsAllCandidates ==
  \A p \in Procs :
    SecondOfPair(p) =>
      /\ result[p].createdWorkOrders = <<>>
      /\ result[p].duplicateWorkOrderNumbers = NumbersOf(candidateInputs[p])
      /\ RangeOf(NumbersOf(prev.created))
           \subseteq RangeOf(result[p].duplicateWorkOrderNumbers)
      /\ Len(prev.created) = Len(prev.candidateInputs) =>
           result[p].duplicateWorkOrderNumbers = NumbersOf(prev.created)

\* A second invocation whose first inserted some candidates but not all.
C1_Witness ==
  \E p \in Procs :
    /\ SecondOfPair(p)
    /\ prev.created # <<>>
    /\ Len(prev.created) < Len(prev.candidateInputs)

C3_UniquePerTenant ==
  \A r1 \in DOMAIN store : \A r2 \in DOMAIN store :
    (r1.userId = r2.userId /\ r1.workOrderNumber = r2.workOrderNumber)
      => (r1 = r2 /\ store[r1] = 1)

\* C4: the status a completed invocation writes is skipped_duplicate exactly
\* when it had candidates and inserted none of them (then every candidate
\* was a duplicate), and processed in every other case.
C4_StatusDerivation ==
  \A p \in Procs :
    Completed(p) =>
      LET allDuplicates ==
            Len(candidateInputs[p]) > 0 /\ Len(created[p]) = 0
      IN  /\ emailStatus[emailId[p]] =
               IF allDuplicates THEN "skipped_duplicate" ELSE "processed"
          /\ result[p].emailStatus = emailStatus[emailId[p]]
          /\ allDuplicates =>
               Len(duplicateNumbers[p]) = Len(candidateInputs[p])

\* A completed invocation with new and duplicate candidates.
C4_Witness ==
  \E p \in Procs :
    /\ Completed(p)
    /\ created[p] # <<>>
    /\ duplicateNumbers[p] # <<>>
    /\ emailStatus[emailId[p]] = "processed"

\* C5 as stated: an invocation on an email that is already processed or
\* skipped_duplicate leaves that status as it is.
C5_SettledStatusKept ==
  \A p \in Procs :
    (Completed(p) /\ loadedStatus[p] \in Terminal) =>
      emailStatus[emailId[p]] = loadedStatus[p]

\* C5 amended: an email that is processed or skipped_duplicate never leaves
\* these two values (it may change from one to the other).
C5_SettledStatusStaysSettled ==
  [][\A e \in StoredEmailIds :
       emailStatus[e] \in Terminal => emailStatus'[e] \in Terminal]_vars

\* An invocation found the email processed and left it skipped_duplicate.
C5_Witness ==
  \E p \in Procs :
    /\ Completed(p)
    /\ loadedStatus[p] = "processed"
    /\ emailStatus[emailId[p]] = "skipped_duplicate"

\* The second of two completed invocations in a row on the same email and
\* tenant, the first of which created records.
AfterCreatingCall(p) ==
  /\ Completed(p)
  /\ prev.completed
  /\ prev.emailId = emailId[p]
  /\ prev.userId = userId[p]
  /\ prev.created # <<>>

\* What C6 says of the second invocation.
ReportsAndSkips(p) ==
  /\ RangeOf(NumbersOf(prev.created))
       \subseteq RangeOf(result[p].duplicateWorkOrderNumbers)
  /\ result[p].skippedAsDuplicate
  /\ result[p].emailStatus = "skipped_duplicate"
  /\ emailStatus[emailId[p]] = "skipped_duplicate"

\* C6 as stated: the second invocation reports every number the first
\* created, returns skippedAsDuplicate and sets skipped_duplicate.
C6_SecondCallSkips ==
  \A p \in Procs : AfterCreatingCall(p) => ReportsAndSkips(p)

\* C6 amended: it does so when the extraction yields the same candidates as
\* in the first invocation and the tenant's work orders were not cleared in
\* between.
C6_SecondCallSkipsSameCandidates ==
  \A p \in Procs :
    (AfterCreatingCall(p) /\ SecondOfPair(p)) => ReportsAndSkips(p)

\* A second invocation that was skipped after a first one that created.
C6_Witness ==
  \E p \in Procs :
    /\ AfterCreatingCall(p)
    /\ SecondOfPair(p)
    /\ result[p].skippedAsDuplicate

\* C7: the email status changes only in the step that completes an
\* invocation, and an invocation that threw or was cancelled leaves the
\* status it loaded.
C7_StatusWrittenLast ==
  [][/\ emailStatus' # emailStatus =>
          \E p \in Procs :
            /\ pc[p] \in {"updateStatus", "updateStatusNoCandidates"}
            /\ pc'[p] = "done"
     /\ \A p \in Procs :
          (pc'[p] \in {"threw", "cancelled"} /\ loadedStatus'[p] # NULL) =>
            emailStatus'[emailId'[p]] = loadedStatus'[p]]_vars

\* An invocation stopped after its insert; the email is still new.
C7_Witness ==
  \E p \in Procs :
    /\ pc[p] \in {"threw", "cancelled"}
    /\ created[p] # <<>>
    /\ loadedStatus[p] = "new"
    /\ emailStatus[emailId[p]] = "new"

\* C8: past the AI step, the candidates are the AI extractor's list when it
\* is non-empty, and the rule-based extractor's output when the AI extractor
\* threw, returned null or returned an empty list; the invocation never
\* throws the AI extractor's error.
C8_CandidateSelection ==
  \A p \in Procs :
    /\ (pc[p] \in {"updateStatusNoCandidates", "findByWorkOrderNumbers",
                   "saveMany", "updateStatus"} \/ Completed(p)) =>
         candidateInputs[p] =
           IF aiResult[p].kind = "list" /\ Len(aiResult[p].list) > 0
             THEN aiResult[p].list
             ELSE WithUserId(buildWorkOrderInputsFromEmail(EmailTable[emailId[p]]),
                             userId[p])
    /\ pc[p] = "threw" => thrown[p] = "RepoError"

\* The AI extractor returned an empty list and the rule-based records are
\* the candidates.
C8_Witness ==
  \E p \in Procs :
    /\ pc[p] = "findByWorkOrderNumbers"
    /\ aiResult[p] = AiList(<<>>)
    /\ candidateInputs[p] # <<>>

\* C9: an invocation for an id without a stored email returns null at its
\* first step, goes no further, and while it is in flight neither the work
\* orders nor any email status change.
C9_NotFound ==
  [][\A p \in Procs :
       (pc[p] # "idle" /\ emailId[p] \notin StoredEmailIds) =>
         /\ store' = store
         /\ emailStatus' = emailStatus
         /\ pc'[p] \notin (AwaitPoints \ {"getById"})
         /\ (pc[p] = "getById" /\ pc'[p] = "done") => result'[p] = NullResult]_vars

\* An invocation returned null.
C9_Witness ==
  \E p \in Procs : pc[p] = "done" /\ result[p].kind = "null"

\* C10: an invocation that found its email ends up completed with the email
\* processed or skipped_duplicate, unless it is cancelled or a repository
\* call throws; nothing the AI extractor does stops it.
C10_EventuallySettles ==
  \A p \in Procs :
    (pc[p] = "getById" /\ emailId[p] \in StoredEmailIds)
      ~> \/ pc[p] = "cancelled"
         \/ pc[p] = "threw" /\ thrown[p] = "RepoError"
         \/ Completed(p) /\ emailStatus[emailId[p]] \in Terminal

\* The AI extractor threw and the invocation completed with placeholder
\* records only.
C10_Witness ==
  \E p \in Procs :
    /\ Completed(p)
    /\ aiResult[p].kind = "thrown"
    /\ created[p] # <<>>
    /\ \A r \in RangeOf(created[p]) : r.serviceAddress = "Unknown facility"
    /\ emailStatus[emailId[p]] = "processed"

\* The placeholder number of the AI path for an email.
AiPlaceholder(id) == UnknownPrefix \o Slice0(id, 8)

\* The extractors drop no record: the rule-based path gives one record per
\* PDF attachment, the AI path one per work order of the reply, numbered as
\* in the reply or, without a number there, with the placeholder.
EveryRecordKept ==
  \A id \in StoredEmailIds :
    /\ Len(buildWorkOrderInputsFromEmail(getById(id)))
         = Len(PdfAttachments(getById(id)))
    /\ \A reply \in AiReplies :
         LET out == parseAiResponse(reply, getById(id))
         IN  out.kind = "list" =>
               /\ Len(out.list) = Len(reply.workOrders)
               /\ \A k \in 1..Len(out.list) :
                    out.list[k].workOrderNumber =
                      IF reply.workOrders[k].work_order_number # <<>>
                        THEN reply.workOrders[k].work_order_number
                        ELSE AiPlaceholder(id)

\* C11: every candidate of an invocation, on the rule-based path and on the
\* AI path, has a non-empty workOrderNumber; the AI path gives one record per
\* work order of the reply and the rule-based path one per PDF attachment
\* (none is dropped), a record without an identifier carries the placeholder
\* made from the email's id, and no row the pipeline stored has an empty
\* number.
C11_NumberNeverEmpty ==
  /\ \A p \in Procs :
       pc[p] \in {"findByWorkOrderNumbers", "saveMany", "updateStatus"} =>
         /\ \A k \in 1..Len(candidateInputs[p]) :
              /\ candidateInputs[p][k].workOrderNumber # <<>>
              /\ candidateInputs[p][k].workOrderNumber # NULL
         /\ \A k \in 1..Len(newInputs[p]) :
              newInputs[p][k].workOrderNumber # <<>>
  /\ \A row \in DOMAIN store : row.workOrderNumber # <<>>
  /\ EveryRecordKept

\* A row stored under the AI path's placeholder number.
C11_Witness ==
  \E p \in Procs :
    /\ pc[p] = "updateStatus"
    /\ aiResult[p].kind = "list"
    /\ \E r \in RangeOf(created[p]) :
         /\ r.workOrderNumber = AiPlaceholder(emailId[p])
         /\ r \in DOMAIN store

\* C12: the records an invocation hands to the duplicate check and to
\* saveMany, and the rows it creates, carry the userId given to the call,
\* whatever userId (here: none) the extractor left on the candidate; the
\* rows it created are rows of that tenant in the store.
C12_TenantAttached ==
  \A p \in Procs :
    /\ pc[p] \in {"findByWorkOrderNumbers", "saveMany"} =>
         /\ Len(InputsWithUserId(p)) = Len(candidateInputs[p])
         /\ \A k \in 1..Len(candidateInputs[p]) :
              /\ InputsWithUserId(p)[k].userId = userId[p]
              /\ InputsWithUserId(p)[k].workOrderNumber
                   = candidateInputs[p][k].workOrderNumber
    /\ pc[p] \in {"saveMany", "updateStatus"} =>
         \A r \in RangeOf(newInputs[p]) \cup RangeOf(created[p]) :
           r.userId = userId[p]
    /\ pc[p] = "updateStatus" =>
         \A r \in RangeOf(created[p]) : r \in DOMAIN store

\* An invocation without a session stored rows extracted by the AI path,
\* whose candidates came without userId.
C12_Witness ==
  \E p \in Procs :
    /\ pc[p] = "updateStatus"
    /\ userId[p] = NULL
    /\ created[p] # <<>>
    /\ \A k \in 1..Len(candidateInputs[p]) :
         candidateInputs[p][k].userId = UNSET
    /\ \A r \in RangeOf(created[p]) : r.userId = NULL /\ r \in DOMAIN store

\* C13: nothing is checked again between the duplicate lookup and the
\* insert: an invocation that passed the lookup inserts all its new inputs,
\* whatever other invocations have inserted since, so two invocations for the
\* same email and tenant that both looked up before either inserted leave
\* two rows with the same tenant and number.
C13_InsertWithoutRecheck ==
  [][\A p \in Procs :
       (pc[p] = "saveMany" /\ pc'[p] = "updateStatus") =>
         /\ store' = store (+) BagOfSeq(newInputs[p])
         /\ created'[p] = newInputs[p]]_vars

\* Two invocations for the same email and tenant have both completed, both
\* created the same row, and the store holds it twice.
C13_Witness ==
  \E p \in Procs : \E q \in Procs \ {p} :
    /\ Completed(p) /\ Completed(q)
    /\ emailId[p] = emailId[q]
    /\ userId[p] = userId[q]
    /\ created[p] # <<>>
    /\ \E r \in RangeOf(created[p]) \cap RangeOf(created[q]) :
         CopiesIn(r, store) >= 2
    /\ emailStatus[emailId[p]] = "processed"

\* The stored email has no attachment with a PDF MIME type.
NoPdfAttachment(id) ==
  id \in StoredEmailIds /\ Len(PdfAttachments(getById(id))) = 0

\* C16: a call for an email without a PDF attachment (or without any
\* attachment) that returns a result returns no created work orders,
\* skippedAsDuplicate false and no duplicate numbers, has set the email's
\* status to "processed", and has inserted nothing into the store.
C16_ZeroCandidateOutcome ==
  [][\A p \in Procs :
       (/\ pc[p] \notin {"idle", "done"} /\ pc'[p] = "done"
        /\ result'[p].kind = "value"
        /\ NoPdfAttachment(emailId[p]))
       => /\ result'[p].createdWorkOrders = <<>>
          /\ result'[p].skippedAsDuplicate = FALSE
          /\ result'[p].duplicateWorkOrderNumbers = <<>>
          /\ result'[p].emailStatus = "processed"
          /\ emailStatus'[emailId[p]] = "processed"
          /\ created'[p] = <<>>
          /\ store' = store]_vars

\* A call for the email without attachments has returned, after a call for
\* the email whose only attachment is an image.
C16_Witness ==
  \E p \in Procs :
    /\ Completed(p)
    /\ emailId[p] = E4
    /\ Len(getById(E4).attachments) = 0
    /\ result[p].createdWorkOrders = <<>>
    /\ emailStatus[E4] = "processed"
    /\ Len(getById(E3).attachments) = 1
    /\ emailStatus[E3] = "processed"

\* The body has a work order whose workOrderNumber is missing or empty.
NumberMissingOrEmpty(body) ==
  /\ body.kind = "array"
  /\ \E k \in 1..Len(body.workOrders) :
       \/ ~body.workOrders[k].isObject
       \/ body.workOrders[k].numberType # "string"
       \/ body.workOrders[k].workOrderNumber = <<>>

\* C14: a POST whose body has a work order with a missing or empty
\* workOrderNumber is not answered 200 and saves nothing.
C14_MissingOrEmptyRejected ==
  NumberMissingOrEmpty(post.body) => (post.status # 200 /\ post.saved = <<>>)

\* C15: every row a POST saved has the userId of the request's session (the
\* null tenant without a session), whatever userId the body carried.
C15_OwnerFromSession ==
  post.status = 200 =>
    \A r \in RangeOf(post.saved) : r.userId = post.session

\* The MIME type has "pdf" in it, in any mix of upper and lower case.
ContainsPdf(mimeType) ==
  \E i \in 1..(Len(mimeType) - 2) :
    /\ mimeType[i] \in {"p", "P"}
    /\ mimeType[i + 1] \in {"d", "D"}
    /\ mimeType[i + 2] \in {"f", "F"}

\* The positions of the attachments with a PDF MIME type.
PdfPositions(email) ==
  {i \in 1..Len(email.attachments) : ContainsPdf(email.attachments[i].mimeType)}

\* The k-th smallest element of a set of numbers.
KthOf(positions, k) ==
  CHOOSE i \in positions : Cardinality({j \in positions : j <= i}) = k

\* C17: buildWorkOrderInputsFromEmail returns one record per attachment
\* whose MIME type contains "pdf" in any case, in the order of the
\* attachments (a record carries the number of its attachment's filename
\* when the filename has one), so no record when there is no such
\* attachment; the record of a PDF named "1898060.pdf" has the
\* workOrderNumber "1898060".
C17_OneRecordPerPdf ==
  builder.state = "returned" =>
    LET email == builder.email
        positions == PdfPositions(email)
    IN  /\ Len(builder.inputs) = Cardinality(positions)
        /\ \A k \in 1..Len(builder.inputs) :
             LET filename == email.attachments[KthOf(positions, k)].filename
                 fromFilename == extractWorkOrderNumberFromText(filename)
             IN  /\ fromFilename # NULL =>
                      builder.inputs[k].workOrderNumber = fromFilename
                 /\ filename = F1898060 =>
                      builder.inputs[k].workOrderNumber =
                        <<"1","8","9","8","0","6","0">>

\* The call returned two records for three attachments: an upper-case PDF
\* MIME type, an image, and the PDF named "1898060.pdf".
C17_Witness ==
  /\ builder.state = "returned"
  /\ Len(builder.email.attachments) = 3
  /\ builder.email.attachments[1].mimeType = MimePdfUpper
  /\ builder.email.attachments[1].filename = FWo55555
  /\ builder.email.attachments[2].mimeType = MimePng
  /\ builder.email.attachments[3] = [filename |-> F1898060, mimeType |-> MimePdf]
  /\ Len(builder.inputs) = 2
  /\ builder.inputs[1].workOrderNumber = <<"5","5","5","5","5">>
  /\ builder.inputs[2].workOrderNumber = <<"1","8","9","8","0","6","0">>

\* The letters WO, in any case, at position i of s, then an optional # and
\* optional whitespace, then a digit at position start.
WoPatternAt(s, i, start) ==
  /\ i + 1 <= Len(s)
  /\ s[i] \in {"w", "W"} /\ s[i + 1] \in {"o", "O"}
  /\ start <= Len(s) /\ s[start] \in Digits
  /\ \E h \in {0, 1} :
       /\ h = 1 => (i + 2 <= Len(s) /\ s[i + 2] = "#")
       /\ start >= i + 2 + h
       /\ \A j \in (i + 2 + h)..(start - 1) : s[j] \in Whitespace

\* The starts of the maximal runs of digits of s.
RunStarts(s) ==
  {i \in 1..Len(s) : s[i] \in Digits /\ (i = 1 \/ s[i - 1] \notin Digits)}

\* C18: when the token WO (not inside a word), an optional #, optional
\* whitespace and a run of 5 to 10 digits are in the text and every other
\* run of digits of the text is shorter, the call returns that run.
C18_WoTokenGroupReturned ==
  locator.state = "returned" =>
    \A i \in 1..Len(locator.text), start \in 1..Len(locator.text) :
      LET run == RunLength(locator.text, start, Digits)
      IN  (/\ WoPatternAt(locator.text, i, start)
           /\ (i = 1 \/ locator.text[i - 1] \notin WordChars)
           /\ run >= WoMinDigits /\ run <= MaxDigits
           /\ \A other \in RunStarts(locator.text) \ {start} :
                RunLength(locator.text, other, Digits) < run)
          => /\ locator.found
             /\ locator.number = SubSeq(locator.text, start, start + run - 1)

\* The text has the letters WO, in any case, nowhere.
NoWoMarker(s) ==
  \A i \in 1..(Len(s) - 1) : ~(s[i] \in {"w", "W"} /\ s[i + 1] \in {"o", "O"})

\* The starts of the standalone runs of 6 to 10 digits: maximal runs with no
\* letter, digit or underscore right before or right after them.
StandaloneRuns(s) ==
  {i \in RunStarts(s) :
     LET n == RunLength(s, i, Digits)
     IN  /\ n >= 6 /\ n <= 10
         /\ (i = 1 \/ s[i - 1] \notin WordChars)
         /\ (i + n > Len(s) \/ s[i + n] \notin WordChars)}

IsTrimOf(t, raw) ==
  /\ t # <<>> => (t[1] \notin Whitespace /\ t[Len(t)] \notin Whitespace)
  /\ \E a \in 0..Len(raw) :
       /\ a + Len(t) <= Len(raw)
       /\ \A i \in 1..Len(t) : raw[a + i] = t[i]
       /\ \A i \in (1..a) \cup ((a + Len(t) + 1)..Len(raw)) :
            raw[i] \in Whitespace

\* pdf-parse gave a text that is more than whitespace.
PrimaryHasText ==
  /\ pdf.primary.kind = "text"
  /\ \E i \in 1..Len(pdf.primary.text) : pdf.primary.text[i] \notin Whitespace

\* pdfjs-dist read the pages and some item is more than whitespace.
FallbackHasText ==
  /\ pdf.fallback.kind = "pages"
  /\ \E n \in 1..Len(pdf.fallback.pages) :
       \E k \in 1..Len(pdf.fallback.pages[n]) :
         LET item == pdf.fallback.pages[n][k]
         IN  item.hasStr /\ \E i \in 1..Len(item.str) : item.str[i] \notin Whitespace

\* C20: when pdf-parse gives text that is not empty once trimmed, the call
\* returns that trimmed text and pdfjs-dist is not run; the call throws only
\* after pdf-parse failed or gave empty text and pdfjs-dist, run after it,
\* failed or gave empty text too; a returned text is not empty and has no
\* whitespace at its ends.
C20_TwoEngineCascade ==
  /\ PrimaryHasText =>
       /\ pdf.state = "returned"
       /\ IsTrimOf(pdf.text, pdf.primary.text)
       /\ pdf.fallback.kind = "notRun"
  /\ pdf.state = "threw" =>
       /\ pdf.primary.kind # "notRun" /\ ~PrimaryHasText
       /\ pdf.fallback.kind # "notRun" /\ ~FallbackHasText
  /\ pdf.state = "returned" =>
       /\ pdf.text # <<>>
       /\ pdf.text[1] \notin Whitespace
       /\ pdf.text[Len(pdf.text)] \notin Whitespace

\* pdf-parse gave " WO 1 \n": the call returned "WO 1" and pdfjs-dist did
\* not run.
C20_Witness ==
  /\ pdf.state = "returned"
  /\ pdf.primary.kind = "text"
  /\ pdf.primary.text = <<" ", "W", "O", " ", "1", " ", "\n">>
  /\ pdf.text = <<"W", "O", " ", "1">>
  /\ pdf.fallback.kind = "notRun"

\* The workOrderNumbers of the rows of tenant u.
StoredNumbers(table, u) ==
  {row.workOrderNumber : row \in {r \in DOMAIN table : r.userId = u}}

\* Two numbers that differ in case only, and a lookup of one of them in a
\* table that holds the other: nothing is found, the candidate is new.
LookupIsCaseSensitive ==
  LET lower == [workOrderNumber |-> <<"w","o","-","1">>,
                serviceAddress |-> "Unknown facility",
                jobType |-> "General service", userId |-> "uA"]
      upper == [lower EXCEPT !.workOrderNumber = <<"W","O","-","1">>]
      padded == [lower EXCEPT !.workOrderNumber = <<"w","o","-","1"," ">>]
      table == BagOfSeq(<<lower>>)
      inputs == <<upper, lower, padded>>
      existingNumbers == ExistingNumbers(table, "uA", NumbersOf(inputs))
  IN  /\ FilterNew(inputs, existingNumbers) = <<upper, padded>>
      /\ FilterDuplicates(NumbersOf(inputs), existingNumbers)
           = << lower.workOrderNumber >>

\* C21: the lookup step of a call leaves as inputs to insert exactly the
\* candidates (with the call's userId) whose number no row of the tenant
\* has, in order, and as duplicate numbers exactly the numbers of the other
\* candidates, in order; numbers are compared as they are written; the
\* insert step adds exactly the inputs to insert to the store.
C21_DuplicatePartition ==
  [][/\ LookupIsCaseSensitive
     /\ \A p \in Procs :
          /\ (pc[p] = "findByWorkOrderNumbers"
                 /\ pc'[p] \in {"saveMany", "updateStatus"}) =>
               LET cands == candidateInputs[p]
                   stored == StoredNumbers(store, userId[p])
                   fresh == {k \in 1..Len(cands) :
                               cands[k].workOrderNumber \notin stored}
                   dups == (1..Len(cands)) \ fresh
               IN  /\ Len(newInputs'[p]) = Cardinality(fresh)
                   /\ \A j \in 1..Len(newInputs'[p]) :
                        newInputs'[p][j] =
                          [cands[KthOf(fresh, j)] EXCEPT !.userId = userId[p]]
                   /\ Len(duplicateNumbers'[p]) = Cardinality(dups)
                   /\ \A j \in 1..Len(duplicateNumbers'[p]) :
                        duplicateNumbers'[p][j] =
                          cands[KthOf(dups, j)].workOrderNumber
                   /\ (pc'[p] = "saveMany") = (fresh # {})
          /\ (pc[p] = "saveMany" /\ pc'[p] = "updateStatus") =>
               /\ store' = store (+) BagOfSeq(newInputs[p])
               /\ newInputs'[p] = newInputs[p]]_vars

\* A call has split its candidates into some to insert and some whose
\* number the tenant holds already, and is about to insert.
C21_Witness ==
  \E p \in Procs :
    /\ pc[p] = "saveMany"
    /\ Len(newInputs[p]) > 0
    /\ Len(duplicateNumbers[p]) > 0
    /\ RangeOf(duplicateNumbers[p]) \subseteq StoredNumbers(store, userId[p])

\* C22: a call that found its email and has returned a result has run
\* updateStatus on that email exactly once, whichever path it took; a call
\* still under way has run it at most once, a call that found no email
\* never; and every stored email still has its row.
C22_OneStatusWritePerCall ==
  /\ DOMAIN emailStatus = StoredEmailIds
  /\ \A p \in Procs :
       /\ Completed(p) => statusWrites[p] = 1
       /\ pc[p] # "done" => statusWrites[p] = 0
       /\ result[p].kind = "null" => statusWrites[p] = 0

\* A call on the zero-candidate path has returned after its one status
\* write, and the email of an earlier call that inserted rows is processed.
C22_Witness ==
  \E p \in Procs :
    /\ Completed(p)
    /\ NoPdfAttachment(emailId[p])
    /\ statusWrites[p] = 1
    /\ store # EmptyBag
    /\ \E e \in StoredEmailIds \ {emailId[p]} : emailStatus[e] = "processed"

\* The number the precedence rule gives the attachment at position i of
\* the email when index is what the placeholder ends with (index < 10).
NumberByPrecedence(email, i, index) ==
  LET fromFilename ==
        extractWorkOrderNumberFromText(email.attachments[i].filename)
      fromSubject == extractWorkOrderNumberFromText(email.subject)
      first8 == SubSeq(email.id, 1, IF Len(email.id) < 8 THEN Len(email.id) ELSE 8)
      digit == <<"0", "1", "2", "3", "4", "5", "6", "7", "8", "9">>[index + 1]
  IN  IF fromFilename # NULL THEN fromFilename
      ELSE IF fromSubject # NULL THEN fromSubject
      ELSE <<"U","N","K","N","O","W","N","-">> \o first8 \o <<"-", digit>>

\* C23: the record of each PDF attachment has the number the locator finds
\* in the filename, else the number it finds in the subject, else
\* "UNKNOWN-", the first 8 characters of the email id, "-" and the 0-based
\* position of the attachment among the PDF attachments of the email.
C23_NumberPrecedence ==
  builder.state = "returned" =>
    \A k \in 1..Len(builder.inputs) :
      builder.inputs[k].workOrderNumber =
        NumberByPrecedence(builder.email,
                           KthOf(PdfPositions(builder.email), k), k - 1)

\* C23 with the index read as the 0-based position of the attachment among
\* all the attachments of the email.
C23_NumberPrecedenceAttachmentIndex ==
  builder.state = "returned" =>
    \A k \in 1..Len(builder.inputs) :
      LET i == KthOf(PdfPositions(builder.email), k)
      IN  builder.inputs[k].workOrderNumber =
            NumberByPrecedence(builder.email, i, i - 1)

\* The call returned the placeholder "UNKNOWN-e1-00000-0" for a PDF without
\* a number that comes after an image, under a subject without a number.
C23_Witness ==
  /\ builder.state = "returned"
  /\ builder.email.subject = <<"h","i">>
  /\ builder.email.attachments =
       << [filename |-> FNoNumber, mimeType |-> MimePng],
          [filename |-> FNoNumber, mimeType |-> MimePdf] >>
  /\ Len(builder.inputs) = 1
  /\ builder.inputs[1].workOrderNumber =
       <<"U","N","K","N","O","W","N","-","e","1","-","0","0","0","0","0","-","0">>

\* The attachment's bytes could not be loaded or its text extraction threw.
AttachmentFailed(outcome) ==
  outcome.load # "buffer" \/ outcome.extract.kind = "throws"

\* C24: a call of aiParseWorkOrdersFromEmail that has returned with AI
\* disabled, or for an email without a PDF attachment, or after every PDF
\* attachment failed to load or to yield text, has returned null and has not
\* called the language model.
C24_NullWithoutModelCall ==
  (/\ ai.state = "returned"
   /\ \/ ~ai.enabled
      \/ PdfPositions(ai.email) = {}
      \/ /\ Len(ai.outcomes) = Cardinality(PdfPositions(ai.email))
         /\ \A k \in 1..Len(ai.outcomes) : AttachmentFailed(ai.outcomes[k]))
  => (ai.ret = AiNull /\ ai.modelCalls = 0)

\* With AI enabled, the two PDFs of an email both failed, one at the fetch
\* and one in the text extraction, and the call returned null.
C24_Witness ==
  /\ ai.state = "returned"
  /\ ai.enabled
  /\ Len(ai.outcomes) = 2
  /\ ai.outcomes[1].load = "notOk"
  /\ ai.outcomes[2].extract.kind = "throws"
  /\ ai.ret = AiNull
  /\ ai.modelCalls = 0

\* The language model replied with a text that parseAiResponse was given.
ReplyParsed ==
  /\ ai.state = "returned" /\ ai.modelCalls = 1
  /\ ai.reply.kind \notin {"rejected", "no_content"}

\* The reply is JSON with a workOrders array.
ReplyHasArray == ai.reply.kind = "ok"

\* ret is a list with one record per element of the reply, in order: the
\* element's number, or the placeholder when it has none.
OneRecordPerElement ==
  /\ ai.ret.kind = "list"
  /\ Len(ai.ret.list) = Len(ai.reply.workOrders)
  /\ \A k \in 1..Len(ai.ret.list) :
       ai.ret.list[k].workOrderNumber =
         IF ai.reply.workOrders[k].work_order_number # <<>>
           THEN ai.reply.workOrders[k].work_order_number
           ELSE AiPlaceholder(ai.email.id)

\* C25: parseAiResponse returns null for a text that is not JSON or whose
\* workOrders is missing or not an array, the empty list for an empty array,
\* one record per element, in order, for a non-empty array of objects, and
\* null for an array that has a null element.
C25_ParseOutcomes ==
  ReplyParsed =>
    IF ~ReplyHasArray THEN ai.ret = AiNull
    ELSE IF Len(ai.reply.workOrders) = 0
      THEN ai.ret.kind = "list" /\ Len(ai.ret.list) = 0
    ELSE IF \E k \in 1..Len(ai.reply.workOrders) : ai.reply.workOrders[k].isNull
      THEN ai.ret = AiNull
    ELSE OneRecordPerElement

\* C25 as stated: every non-empty workOrders array gives one record per
\* element, in order.
C25_RecordPerElementOfAnyArray ==
  ReplyParsed =>
    IF ~ReplyHasArray THEN ai.ret = AiNull
    ELSE IF Len(ai.reply.workOrders) = 0
      THEN ai.ret.kind = "list" /\ Len(ai.ret.list) = 0
    ELSE OneRecordPerElement

\* The reply had two work orders and the call returned their two records,
\* in the order of the reply.
C25_Witness ==
  /\ ReplyParsed
  /\ ai.reply.workOrders = <<AiItem123456, AiItem700001>>
  /\ ai.ret.kind = "list"
  /\ Len(ai.ret.list) = 2
  /\ ai.ret.list[1].workOrderNumber = N123456
  /\ ai.ret.list[2].workOrderNumber = N700001

\* The turns of the loop whose attachment was loaded and yielded text.
KeptTurns ==
  {k \in 1..Len(ai.outcomes) : ~AttachmentFailed(ai.outcomes[k])}

\* C26: once every PDF attachment has had its turn, the language model is
\* called when some attachment was loaded and yielded text, and the texts
\* sent to it are those of exactly these attachments, in attachment order
\* (each under its filename and cut to the first 8000 characters); the
\* attachments that failed are left out.
C26_FailedAttachmentsSkipped ==
  (ai.state \in {"create", "returned"} /\ ai.enabled /\ KeptTurns # {}) =>
    /\ ai.state = "returned" => ai.modelCalls = 1
    /\ Len(ai.pdfTexts) = Cardinality(KeptTurns)
    /\ \A j \in 1..Len(ai.pdfTexts) :
         LET turn == KthOf(KeptTurns, j)
             attachment ==
               ai.email.attachments[KthOf(PdfPositions(ai.email), turn)]
             text == ai.outcomes[turn].extract.text
         IN  /\ ai.pdfTexts[j].filename = attachment.filename
             /\ ai.pdfTexts[j].text =
                  SubSeq(text, 1, IF Len(text) < 8000 THEN Len(text) ELSE 8000)
    /\ ai.state = "returned" => ai.sent = ai.pdfTexts

\* C27: no step of an invocation writes the status new: each status write
\* leaves the written email processed or skipped_duplicate, and no step
\* takes an email whose status is not new back to new.
C27_NeverWritesNew ==
  [][/\ \A p \in Procs :
          statusWrites'[p] > statusWrites[p] =>
            emailStatus'[emailId[p]] \in Terminal
     /\ \A e \in StoredEmailIds :
          emailStatus'[e] = "new" => emailStatus[e] = "new"]_vars

\* An invocation found the email skipped_duplicate, after the tenant's work
\* orders were cleared, and wrote processed.
C27_Witness ==
  \E p \in Procs :
    /\ Completed(p)
    /\ loadedStatus[p] = "skipped_duplicate"
    /\ statusWrites[p] = 1
    /\ emailStatus[emailId[p]] = "processed"

\* The invocation completed on an email that was already processed or
\* skipped_duplicate, and the tenant's work orders were cleared between the
\* end of the preceding invocation and its start.
ReprocessedAfterClear(p) ==
  /\ Completed(p)
  /\ loadedStatus[p] \in Terminal
  /\ ~prev.retained

\* C28: after clearForUser, an invocation on an email that is already
\* processed or skipped_duplicate extracts the candidates again, inserts all
\* of them and sets the status to processed.
C28_ReprocessedAfterClear ==
  \A p \in Procs :
    ReprocessedAfterClear(p) =>
      /\ \E outcome \in AiOutcomesOf[emailId[p]][aiEnabled] :
           candidateInputs[p] =
             SelectCandidates(outcome, RuleBasedInputsOf[emailId[p]], userId[p])
      /\ created[p] = InputsWithUserId(p)
      /\ result[p].createdWorkOrders = created[p]
      /\ duplicateNumbers[p] = <<>>
      /\ store = BagOfSeq(created[p])
      /\ ~result[p].skippedAsDuplicate
      /\ result[p].emailStatus = "processed"
      /\ emailStatus[emailId[p]] = "processed"

\* Such an invocation on a processed email, with records inserted again.
C28_Witness ==
  \E p \in Procs :
    /\ ReprocessedAfterClear(p)
    /\ loadedStatus[p] = "processed"
    /\ prev.completed
    /\ prev.created # <<>>
    /\ created[p] # <<>>

\* C29: in every result returned, skippedAsDuplicate is true exactly when
\* the status written is skipped_duplicate, and then no record was created
\* and some duplicate number is reported; every reported duplicate number is
\* the number of a candidate and of a record the tenant held before the
\* invocation inserted anything.
C29_ResultConsistency ==
  \A p \in Procs :
    Completed(p) =>
      LET r == result[p]
          heldBefore == store (-) BagOfSeq(r.createdWorkOrders)
      IN  /\ r.skippedAsDuplicate <=> r.emailStatus = "skipped_duplicate"
          /\ r.emailStatus = emailStatus[emailId[p]]
          /\ r.skippedAsDuplicate =>
                /\ r.createdWorkOrders = <<>>
                /\ r.duplicateWorkOrderNumbers # <<>>
          /\ RangeOf(r.duplicateWorkOrderNumbers)
                \subseteq RangeOf(NumbersOf(candidateInputs[p]))
          /\ RangeOf(r.duplicateWorkOrderNumbers)
                \subseteq StoredNumbers(heldBefore, userId[p])
          /\ RangeOf(r.duplicateWorkOrderNumbers)
                \subseteq StoredNumbers(store, userId[p])

\* A result with skippedAsDuplicate that reports two duplicate numbers, both
\* held by the tenant.
C29_Witness ==
  \E p \in Procs :
    /\ Completed(p)
    /\ result[p].skippedAsDuplicate
    /\ result[p].emailStatus = "skipped_duplicate"
    /\ result[p].createdWorkOrders = <<>>
    /\ Len(result[p].duplicateWorkOrderNumbers) = 2
    /\ RangeOf(result[p].duplicateWorkOrderNumbers)
         \subseteq StoredNumbers(store, userId[p])

\* Some candidate of the invocation is not reported as a duplicate.
SomeCandidateNew(p) ==
  \E k \in 1..Len(candidateInputs[p]) :
    candidateInputs[p][k].workOrderNumber \notin RangeOf(duplicateNumbers[p])

\* C30: a step taken while an invocation is under way keeps every stored
\* record of every tenant as it is; it changes the store only in the insert
\* step of an invocation that has a candidate that is not a duplicate, and
\* then by adding that invocation's new inputs; an invocation without a
\* candidate or with duplicates only never reaches the insert step.
C30_StoreOnlyGrows ==
  [][(\E q \in Procs : pc[q] # "idle") =>
       /\ store \sqsubseteq store'
       /\ store' # store =>
            \E p \in Procs :
              /\ pc[p] = "saveMany"
              /\ pc'[p] = "updateStatus"
              /\ SomeCandidateNew(p)
              /\ store' = store (+) BagOfSeq(newInputs[p])
       /\ \A p \in Procs :
            pc'[p] = "saveMany" =>
              /\ Len(candidateInputs'[p]) > 0
              /\ Len(newInputs'[p]) > 0
              /\ SomeCandidateNew(p)']_vars

\* An invocation has inserted records into a store that holds a record of
\* another tenant.
C30_Witness ==
  \E p \in Procs :
    /\ Completed(p)
    /\ created[p] # <<>>
    /\ BagOfSeq(created[p]) \sqsubseteq store
    /\ \E row \in DOMAIN store : row.userId # userId[p]

====
